---- MODULE Spec2Model ----
(***************************************************************************)
(* Model of the obsidian_ai plugin core: the line diff of the review       *)
(* modal (buildUnifiedDiff), the Codex CLI process invoker                 *)
(* (AiClient.spawnCommand) and the HTTP invoker (AiClient.postJson).       *)
(* Texts are sequences of one-character strings.                           *)
(***************************************************************************)
EXTENDS Integers, Sequences, FiniteSets, TLC

VARIABLES
    originalText,   \* buildUnifiedDiff: argument originalText
    updatedText,    \* buildUnifiedDiff: argument updatedText
    diffPc,         \* "input" before the call, "done" after it returned
    diffResult,     \* the string buildUnifiedDiff returned
    requestTimeoutMs, \* settings.requestTimeoutMs
    procPc,         \* spawnCommand, per call: "idle", "pending" or "done"
    child,          \* the spawned process: "none", "running" or "closed"
    stdout,         \* let stdout of the call
    stderr,         \* let stderr of the call
    settled,        \* let settled of the call
    timer,          \* timeoutId: "none", "armed", "fired" or "cleared"
    signals,        \* the signals child.kill has sent
    outcome,        \* what the promise of the call settled to
    settleCalls,    \* how often resolve or reject was called
    outChunks,      \* history: the stdout chunks the process wrote
    errChunks,      \* history: the stderr chunks the process wrote
    closeCode,      \* history: the exit code of the close event
    eventLog,       \* history: "timeout" and "close" in the order they ran
    host,           \* history: the runtime a call found, "none" before it
    httpPc,         \* postJson: "idle", "fetching", "reading" or "done"
    httpPath,       \* the path of the request
    httpTimer,      \* timeoutId of postJson: "none", "armed", "fired", "cleared"
    aborted,        \* controller.signal.aborted
    httpResponse,   \* the response whose headers have arrived
    httpResult,     \* what postJson returned or threw
    httpLog,        \* history: the events of the request in order
    aiBackend,      \* settings.aiBackend
    apiStyle,       \* settings.apiStyle
    model,          \* settings.model
    genPc,          \* improveWriting, per call: "idle", "awaiting spawn",
                    \* "awaiting post" or "done"
    genInput,       \* the argument of the call
    genResult,      \* what the promise of improveWriting settled to
    spawnLog,       \* history: the argument vectors handed to spawn
    postLog,        \* history: the paths and bodies handed to fetch
    surfaced,       \* history: the errors improveWriting threw to its caller
    codexThreadOverrides, \* settings.codexThreadOverrides
    codexThreadMode,      \* settings.codexThreadMode
    codexThreadId,        \* settings.codexThreadId
    lastOp,         \* history: the last Save or Clear and the overrides before it
    callTarget,     \* history: the note of a call and the overrides at its start
    noteValue,      \* editor.getValue(): the text of the note
    selection,      \* the selection of the editor: the offsets from and to
    editPc,         \* improveCurrentWriting, per run: "idle", "generating",
                    \* "reviewing" (the modal is open) or "done"
    run,            \* the closure of a run: sourceText, useSelection, ...
    textarea,       \* editorEl.value of the review modal of a run
    diffPreview,    \* the lines rendered into diffEl of the modal
    notice,         \* the last Notice a run showed
    applied,        \* history: what the apply button of a run wrote, and where
    userEdits,      \* history: how often the user acted on the note
    runButtonDisabled, \* runButtonEl.disabled of the Ask & Edit panel
    targetFilePath, \* this.targetFilePath of the panel
    panelPath       \* history: the path the last runAskEdit took

diffVars == <<originalText, updatedText, diffPc, diffResult>>

procVars == <<procPc, child, stdout, stderr, settled, timer, signals, outcome,
              settleCalls, outChunks, errChunks, closeCode, eventLog, host>>

httpVars == <<httpPc, httpPath, httpTimer, aborted, httpResponse, httpResult,
              httpLog>>

genVars == <<aiBackend, apiStyle, model, genPc, genInput, genResult, spawnLog,
             postLog, surfaced>>

threadVars == <<codexThreadOverrides, codexThreadMode, codexThreadId, lastOp,
                callTarget>>

editVars == <<noteValue, selection, editPc, run, textarea, diffPreview, notice,
              applied, userEdits>>

panelVars == <<runButtonDisabled, targetFilePath, panelPath>>

vars == <<diffVars, requestTimeoutMs, procVars, httpVars, genVars, threadVars,
          editVars, panelVars>>

(***************************************************************************)
(* Bounds of the model.                                                    *)
(***************************************************************************)
MaxLen == 3          \* longest enumerated input text, in characters
MaxChunks == 2       \* data events per output stream of a process
MaxUserEdits == 1    \* selection moves and typed characters of the user

(***************************************************************************)
(* Strings.                                                                *)
(***************************************************************************)
LF == "\n"
CR == "\r"

Chars == {"a", "b", LF, CR}

RECURSIVE SeqsUpTo(_, _)
SeqsUpTo(S, k) ==
    IF k = 0 THEN {<<>>}
    ELSE LET shorter == SeqsUpTo(S, k - 1)
         IN  shorter \cup {Append(s, c) : s \in shorter, c \in S}

\* k line feeds in a row: a text of k + 1 empty lines
LineFeeds(k) == [i \in 1..k |-> LF]

RECURSIVE Reverse(_)
Reverse(s) == IF s = <<>> THEN <<>> ELSE Append(Reverse(Tail(s)), Head(s))

\* Array.prototype.join
RECURSIVE Join(_, _)
Join(lines, sep) ==
    IF lines = <<>> THEN <<>>
    ELSE IF Len(lines) = 1 THEN lines[1]
    ELSE lines[1] \o sep \o Join(Tail(lines), sep)

(***************************************************************************)
(* splitLines: text.split(/\r?\n/).  Every line feed ends a line, and a    *)
(* carriage return directly before it is part of the terminator; the text  *)
(* after the last line feed is the last line, so a text has one more line  *)
(* than it has line feeds.                                                 *)
(***************************************************************************)
\* the positions lo..hi of text that hold a line feed, in increasing order
RECURSIVE LineFeedsIn(_, _, _)
LineFeedsIn(text, lo, hi) ==
    IF lo > hi THEN <<>>
    ELSE IF lo = hi THEN (IF text[lo] = LF THEN <<lo>> ELSE <<>>)
    ELSE LET mid == (lo + hi) \div 2
         IN  LineFeedsIn(text, lo, mid) \o LineFeedsIn(text, mid + 1, hi)

SplitAt(text, feeds, dropCR) ==
    [k \in 1..(Len(feeds) + 1) |->
        LET from == IF k = 1 THEN 1 ELSE feeds[k - 1] + 1
            stop == IF k > Len(feeds) THEN Len(text) + 1 ELSE feeds[k]
            to   == IF dropCR /\ stop <= Len(text) /\ stop - 1 >= from
                       /\ text[stop - 1] = CR
                    THEN stop - 2 ELSE stop - 1
        IN  SubSeq(text, from, to)]

\* a split that drops the empty lines, as split(...).filter(Boolean) would
splitLines_DropEmpty(text) ==
    SelectSeq(SplitAt(text, LineFeedsIn(text, 1, Len(text)), TRUE),
              LAMBDA l : l # <<>>)

splitLines(text) == SplitAt(text, LineFeedsIn(text, 1, Len(text)), TRUE)

(***************************************************************************)
(* buildUnifiedDiff.  The arrays prev, curr (Uint32Array(cols)) and        *)
(* directions (Uint8Array((n + 1) * cols)) are functions from 0; the line  *)
(* arrays are sequences, so originalLines[i - 1] of the code is            *)
(* originalLines[i] here.                                                  *)
(***************************************************************************)
DiffCeiling == 250000

Sentinel == <<
    "D", "i", "f", "f", " ", "i", "s", " ", "t", "o", "o", " ", "l", "a",
    "r", "g", "e", " ", "t", "o", " ", "r", "e", "n", "d", "e", "r", " ",
    "s", "a", "f", "e", "l", "y", ".", " ", "A", "p", "p", "l", "y", " ",
    "t", "o", " ", "i", "n", "s", "p", "e", "c", "t", " ", "f", "u", "l",
    "l", " ", "c", "h", "a", "n", "g", "e", "s", " ", "i", "n", " ", "n",
    "o", "t", "e", " ", "v", "i", "e", "w", "." >>

\* a guard that trips at the ceiling itself
TooLarge_AtCeiling(n, m) == n * m >= DiffCeiling

TooLarge(n, m) == n * m > DiffCeiling

\* a tie-break that goes left on equal scores
PreferUp_Strict(up, left) == up > left

\* a comparison the wrong way round: up is taken when it scores less
PreferUp_Inverted(up, left) == up <= left

PreferUp(up, left) == up >= left

\* originalLines[i] === updatedLines[j] with the indices not shifted to the
\* lines the cell is about; an index past the end reads undefined
SameLine_OffByOne(originalLines, updatedLines, i, j) ==
    LET a == IF i < Len(originalLines) THEN <<originalLines[i + 1]>> ELSE <<>>
        b == IF j < Len(updatedLines) THEN <<updatedLines[j + 1]>> ELSE <<>>
    IN  a = b

SameLine(originalLines, updatedLines, i, j) == originalLines[i] = updatedLines[j]

ZeroArray(size) == [k \in 0..(size - 1) |-> 0]

FillCell(originalLines, updatedLines, i, j, t) ==
    LET cols == Len(updatedLines) + 1
        idx  == i * cols + j
    IN  IF SameLine(originalLines, updatedLines, i, j)
        THEN [t EXCEPT !.curr[j] = t.prev[j - 1] + 1, !.directions[idx] = 3]
        ELSE IF PreferUp(t.prev[j], t.curr[j - 1])
        THEN [t EXCEPT !.curr[j] = t.prev[j], !.directions[idx] = 1]
        ELSE [t EXCEPT !.curr[j] = t.curr[j - 1], !.directions[idx] = 2]

\* the inner loop; t.j is its loop variable
RECURSIVE FillRow(_, _, _, _)
FillRow(originalLines, updatedLines, i, t) ==
    IF t.j > Len(updatedLines) THEN t
    ELSE FillRow(originalLines, updatedLines, i,
                 [FillCell(originalLines, updatedLines, i, t.j, t)
                     EXCEPT !.j = t.j + 1])

\* the outer loop, t.i its loop variable; after each row prev.set(curr) and
\* curr.fill(0)
RECURSIVE FillTable(_, _, _)
FillTable(originalLines, updatedLines, t) ==
    IF t.i > Len(originalLines) THEN t
    ELSE LET row == FillRow(originalLines, updatedLines, t.i,
                            [t EXCEPT !.j = 1])
         IN  FillTable(originalLines, updatedLines,
                       [row EXCEPT !.prev = row.curr,
                                   !.curr = ZeroArray(Len(updatedLines) + 1),
                                   !.i = t.i + 1])

Directions(originalLines, updatedLines) ==
    LET n    == Len(originalLines)
        cols == Len(updatedLines) + 1
    IN  FillTable(originalLines, updatedLines,
                  [i          |-> 1,
                   j          |-> 1,
                   prev       |-> ZeroArray(cols),
                   curr       |-> ZeroArray(cols),
                   directions |-> ZeroArray((n + 1) * cols)]).directions

\* an iteration whose Equal branch steps up only: i -= 1 without j -= 1
BacktraceStep_EqualUp(originalLines, updatedLines, directions, i, j) ==
    LET cols == Len(updatedLines) + 1
        idx  == i * cols + j
    IN  IF i > 0 /\ j > 0 /\ directions[idx] = 3
        THEN [op |-> "Equal", line |-> <<" ">> \o updatedLines[j],
              i |-> i - 1, j |-> j, idx |-> idx]
        ELSE IF j > 0 /\ (i = 0 \/ directions[idx] = 2)
        THEN [op |-> "Insert", line |-> <<"+">> \o updatedLines[j],
              i |-> i, j |-> j - 1, idx |-> idx]
        ELSE IF i > 0
        THEN [op |-> "Delete", line |-> <<"-">> \o originalLines[i],
              i |-> i - 1, j |-> j, idx |-> idx]
        ELSE [op |-> "none", line |-> <<>>, i |-> i, j |-> j, idx |-> idx]

\* one iteration of the while loop at (i, j): the cell idx it computes, the
\* line it pushes and the (i, j) it leaves; when none of the three ifs is
\* taken the loop goes round with nothing pushed and (i, j) as they were
BacktraceStep(originalLines, updatedLines, directions, i, j) ==
    LET cols == Len(updatedLines) + 1
        idx  == i * cols + j
    IN  IF i > 0 /\ j > 0 /\ directions[idx] = 3
        THEN [op |-> "Equal", line |-> <<" ">> \o updatedLines[j],
              i |-> i - 1, j |-> j - 1, idx |-> idx]
        ELSE IF j > 0 /\ (i = 0 \/ directions[idx] = 2)
        THEN [op |-> "Insert", line |-> <<"+">> \o updatedLines[j],
              i |-> i, j |-> j - 1, idx |-> idx]
        ELSE IF i > 0
        THEN [op |-> "Delete", line |-> <<"-">> \o originalLines[i],
              i |-> i - 1, j |-> j, idx |-> idx]
        ELSE [op |-> "none", line |-> <<>>, i |-> i, j |-> j, idx |-> idx]

\* the walk from (n, m) to (0, 0); diffLines grows by push
RECURSIVE Backtrace(_, _, _, _, _, _)
Backtrace(originalLines, updatedLines, directions, i, j, diffLines) ==
    IF ~(i > 0 \/ j > 0) THEN diffLines
    ELSE LET step == BacktraceStep(originalLines, updatedLines, directions, i, j)
         IN  Backtrace(originalLines, updatedLines, directions, step.i, step.j,
                       IF step.op = "none" THEN diffLines
                       ELSE Append(diffLines, step.line))

\* the walk's lines left in the order they were pushed
Emitted_NotReversed(diffLines) == diffLines

Emitted(diffLines) == Reverse(diffLines)

buildUnifiedDiff(original, updated) ==
    LET originalLines == splitLines(original)
        updatedLines  == splitLines(updated)
        n == Len(originalLines)
        m == Len(updatedLines)
    IN  IF TooLarge(n, m) THEN Sentinel
        ELSE Join(Emitted(Backtrace(originalLines, updatedLines,
                                    Directions(originalLines, updatedLines),
                                    n, m, <<>>)),
                  <<LF>>)

(***************************************************************************)
(* renderDiffPreview reads the rendered diff back: diffText.split("\n"),   *)
(* a line starting with "+" is an insertion, with "-" a deletion, any      *)
(* other line is unchanged text.                                           *)
(***************************************************************************)
\* diffText.split("\n")
SplitOnLineFeed(text) == SplitAt(text, LineFeedsIn(text, 1, Len(text)), FALSE)

DiffLineKind(line) ==
    IF line # <<>> /\ line[1] = "+" THEN "Insert"
    ELSE IF line # <<>> /\ line[1] = "-" THEN "Delete"
    ELSE "Equal"

renderDiffPreview(diffText) ==
    LET lines == SplitOnLineFeed(diffText)
    IN  [k \in 1..Len(lines) |-> [op |-> DiffLineKind(lines[k]), line |-> lines[k]]]

(***************************************************************************)
(* The diff as a state machine: the caller picks the two texts, the call   *)
(* returns the rendered diff.                                              *)
(***************************************************************************)
SmallTexts == SeqsUpTo(Chars, MaxLen)

\* a text of one-character lines
OneCharLines(chars) == Join([k \in 1..Len(chars) |-> <<chars[k]>>], <<LF>>)

\* longer texts: the literal "x", and two texts of seven and six lines whose
\* longest common subsequence has four lines
LiteralTexts ==
    {<<"x">>,
     OneCharLines(<<"a", "b", "c", "b", "d", "a", "b">>),
     OneCharLines(<<"b", "d", "c", "a", "b", "a">>)}

\* the text pairs of the model: every pair of small and literal texts, and
\* texts of 500 and 501 empty lines, whose line-count products lie above
\* the ceiling
DiffInputs ==
    ((SmallTexts \cup LiteralTexts) \X (SmallTexts \cup LiteralTexts))
    \cup {<<LineFeeds(500), LineFeeds(499)>>,
          <<LineFeeds(499), LineFeeds(500)>>,
          <<LineFeeds(500), LineFeeds(500)>>}

DiffIdle ==
    /\ originalText = <<>>
    /\ updatedText = <<>>
    /\ diffPc = "input"
    /\ diffResult = <<>>

DiffInit ==
    /\ \E pair \in DiffInputs :
          /\ originalText = pair[1]
          /\ updatedText = pair[2]
    /\ diffPc = "input"
    /\ diffResult = <<>>

BuildUnifiedDiff ==
    /\ diffPc = "input"
    /\ diffResult' = buildUnifiedDiff(originalText, updatedText)
    /\ diffPc' = "done"
    /\ UNCHANGED <<originalText, updatedText>>

(***************************************************************************)
(* AiClient.spawnCommand.  Each call owns its child, buffers, settled flag *)
(* and timer (closure variables), so each is a function of the call.       *)
(***************************************************************************)
Calls == {1, 2}

TimeoutChoices == {60000, 5000}

\* the exit code of a process ended by a signal is null
Null == -1
ExitCodes == {0, 1, 2, Null}

StdoutChunks == {<<"o", "k">>, <<" ">>}
StderrChunks == {<<"b", "a", "d">>, <<LF>>}

WhiteSpace == {" ", "\t", LF, CR}

RECURSIVE TrimStart(_)
TrimStart(s) ==
    IF s # <<>> /\ Head(s) \in WhiteSpace THEN TrimStart(Tail(s)) ELSE s

RECURSIVE TrimEnd(_)
TrimEnd(s) ==
    IF s # <<>> /\ s[Len(s)] \in WhiteSpace
    THEN TrimEnd(SubSeq(s, 1, Len(s) - 1)) ELSE s

\* String.prototype.trim
Trim(s) == TrimEnd(TrimStart(s))

\* what a promise settles to: a value, or an Error with a message that is
\* a given text or a template around a number
NoOutcome == [kind |-> "none", tmpl |-> "", text |-> <<>>, num |-> 0]
Resolved(text) == [kind |-> "resolve", tmpl |-> "", text |-> text, num |-> 0]
Rejected(tmpl, text, num) ==
    [kind |-> "reject", tmpl |-> tmpl, text |-> text, num |-> num]

TimedOutError(timeoutMs) == Rejected("Codex CLI timed out after Nms.", <<>>, timeoutMs)

\* the close handler with the outputs left untrimmed
CloseResult_NoTrim(code, out, err) ==
    IF code = 0 THEN Resolved(out)
    ELSE IF err # <<>> THEN Rejected("text", err, 0)
    ELSE Rejected("Codex CLI exited with code N.", <<>>, code)

\* what the close handler settles the call to
CloseResult(code, out, err) ==
    IF code = 0 THEN Resolved(Trim(out))
    ELSE IF Trim(err) # <<>> THEN Rejected("text", Trim(err), 0)
    ELSE Rejected("Codex CLI exited with code N.", <<>>, code)

\* a timer left as it is
ClearTimeout_Missing(timeoutId) == timeoutId

\* window.clearTimeout(timeoutId): an armed timer is disarmed, clearing a
\* timer that has fired does nothing
ClearTimeout(timeoutId) == IF timeoutId = "armed" THEN "cleared" ELSE timeoutId

\* one settled flag for all calls
AlreadySettled_Shared(c) == \E d \in Calls : settled[d]

\* a handler that never sees the call as settled
AlreadySettled_Never(c) == FALSE

\* if (settled) return;
AlreadySettled(c) == settled[c]

\* a timeout that rejects without ending the process
KillChild_Missing(sent) == sent

\* child.kill("SIGTERM")
KillChild(sent) == Append(sent, "SIGTERM")

\* resolve or reject of the promise: only the first call settles it
Settle(c, result) ==
    /\ outcome' = [outcome EXCEPT
                      ![c] = IF outcome[c].kind = "none" THEN result ELSE @]
    /\ settleCalls' = [settleCalls EXCEPT ![c] = @ + 1]

ProcInit ==
    /\ procPc = [c \in Calls |-> "idle"]
    /\ child = [c \in Calls |-> "none"]
    /\ stdout = [c \in Calls |-> <<>>]
    /\ stderr = [c \in Calls |-> <<>>]
    /\ settled = [c \in Calls |-> FALSE]
    /\ timer = [c \in Calls |-> "none"]
    /\ signals = [c \in Calls |-> <<>>]
    /\ outcome = [c \in Calls |-> NoOutcome]
    /\ settleCalls = [c \in Calls |-> 0]
    /\ outChunks = [c \in Calls |-> <<>>]
    /\ errChunks = [c \in Calls |-> <<>>]
    /\ closeCode = [c \in Calls |-> Null]
    /\ eventLog = [c \in Calls |-> <<>>]
    /\ host = [c \in Calls |-> "none"]

\* a check that only looks for window.require
SpawnCheck_RequireOnly(runtime) ==
    IF runtime = "no require"
    THEN Rejected("Codex CLI is available only in Obsidian desktop.", <<>>, 0)
    ELSE NoOutcome

\* the two capability checks at the head of spawnCommand: the Error thrown,
\* none where the runtime can spawn
SpawnCheck(runtime) ==
    IF runtime = "no require"
    THEN Rejected("Codex CLI is available only in Obsidian desktop.", <<>>, 0)
    ELSE IF runtime = "no spawn"
    THEN Rejected("Unable to access child_process.spawn.", <<>>, 0)
    ELSE NoOutcome

\* the call up to the return of the promise executor: the capability checks,
\* spawn, the three variables, the timer, the listeners
SpawnCommand(c, runtime) ==
    /\ procPc[c] = "idle"
    /\ host' = [host EXCEPT ![c] = runtime]
    /\ IF SpawnCheck(runtime).kind = "reject"
       THEN /\ procPc' = [procPc EXCEPT ![c] = "done"]
            /\ outcome' = [outcome EXCEPT ![c] = SpawnCheck(runtime)]
            /\ UNCHANGED <<child, stdout, stderr, settled, timer>>
       ELSE /\ procPc' = [procPc EXCEPT ![c] = "pending"]
            /\ child' = [child EXCEPT ![c] = "running"]
            /\ stdout' = [stdout EXCEPT ![c] = <<>>]
            /\ stderr' = [stderr EXCEPT ![c] = <<>>]
            /\ settled' = [settled EXCEPT ![c] = FALSE]
            /\ timer' = [timer EXCEPT ![c] = "armed"]
            /\ UNCHANGED outcome
    /\ UNCHANGED <<signals, settleCalls, outChunks, errChunks, closeCode, eventLog>>

\* child.stdout "data"
OnStdoutData(c, chunk) ==
    /\ child[c] = "running"
    /\ Len(outChunks[c]) < MaxChunks
    /\ stdout' = [stdout EXCEPT ![c] = @ \o chunk]
    /\ outChunks' = [outChunks EXCEPT ![c] = Append(@, chunk)]
    /\ UNCHANGED <<procPc, child, stderr, settled, timer, signals, outcome,
                   settleCalls, errChunks, closeCode, eventLog, host>>

\* child.stderr "data"
OnStderrData(c, chunk) ==
    /\ child[c] = "running"
    /\ Len(errChunks[c]) < MaxChunks
    /\ stderr' = [stderr EXCEPT ![c] = @ \o chunk]
    /\ errChunks' = [errChunks EXCEPT ![c] = Append(@, chunk)]
    /\ UNCHANGED <<procPc, child, stdout, settled, timer, signals, outcome,
                   settleCalls, outChunks, closeCode, eventLog, host>>

\* the setTimeout callback
OnTimeout(c) ==
    /\ timer[c] = "armed"
    /\ timer' = [timer EXCEPT ![c] = "fired"]
    /\ eventLog' = [eventLog EXCEPT ![c] = Append(@, "timeout")]
    /\ IF AlreadySettled(c)
       THEN UNCHANGED <<procPc, settled, signals, outcome, settleCalls>>
       ELSE /\ settled' = [settled EXCEPT ![c] = TRUE]
            /\ signals' = [signals EXCEPT ![c] = KillChild(@)]
            /\ Settle(c, TimedOutError(requestTimeoutMs))
            /\ procPc' = [procPc EXCEPT ![c] = "done"]
    /\ UNCHANGED <<child, stdout, stderr, outChunks, errChunks, closeCode, host>>

\* child "close"
OnClose(c, code) ==
    /\ child[c] = "running"
    /\ child' = [child EXCEPT ![c] = "closed"]
    /\ closeCode' = [closeCode EXCEPT ![c] = code]
    /\ eventLog' = [eventLog EXCEPT ![c] = Append(@, "close")]
    /\ IF AlreadySettled(c)
       THEN UNCHANGED <<procPc, settled, timer, outcome, settleCalls>>
       ELSE /\ settled' = [settled EXCEPT ![c] = TRUE]
            /\ timer' = [timer EXCEPT ![c] = ClearTimeout(@)]
            /\ Settle(c, CloseResult(code, stdout[c], stderr[c]))
            /\ procPc' = [procPc EXCEPT ![c] = "done"]
    /\ UNCHANGED <<stdout, stderr, signals, outChunks, errChunks, host>>

(***************************************************************************)
(* AiClient.postJson.  A JSON object is the set of its <<path, text>>      *)
(* leaves, {} the empty object; a response body is such an object or the   *)
(* text "not json".                                                        *)
(***************************************************************************)
Paths == {"/responses", "/chat/completions"}

Statuses == {200, 404, 500}

EmptyObject == {}

\* JSON values that are no strings: null, and a number, object or array;
\* undefined is what a path without a value reads as
JsonNull == <<"null">>
NotAString == <<"not a string">>
Undefined == <<"undefined">>

JsonBodies ==
    {EmptyObject,
     {<<"output_text", <<"h", "i">> >>},
     {<<"error.message", <<"n", "o", "p", "e">> >>},
     {<<"error.message", <<" ", "n", "o", " ">> >>, <<"message", <<"b", "a", "d">> >>},
     {<<"error.message", <<" ">> >>, <<"message", <<"b", "a", "d">> >>},
     {<<"error.message", NotAString>>},
     {<<"error", <<"n", "o">> >>, <<"message", <<"b", "a", "d">> >>},
     {<<"message", <<"b", "a", "d">> >>},
     {<<"output_text", <<" ", "h", "i", LF>> >>,
      <<"output[0].content[0].text", <<"a">> >>},
     {<<"output_text", <<>> >>,
      <<"output[0].content[0].text", <<"h", "e", "l", "l", "o">> >>,
      <<"output[1].content[0].text", <<"w", "o", "r", "l", "d">> >>},
     {<<"output_text", <<" ">> >>,
      <<"output[0].content[0].text", <<"a">> >>,
      <<"output[0].content[1].text", <<"b">> >>,
      <<"output[1].content[0].text", <<"c">> >>},
     {<<"output[0].content[0].text", <<" ", "a", " ">> >>,
      <<"output[0].content[1].text", <<" ">> >>,
      <<"output[1].content[0].text", NotAString>>,
      <<"output[1].content[1].text", <<"b">> >>},
     {<<"output_text", JsonNull>>,
      <<"output[1].content[1].text", <<LF>> >>},
     {<<"output_text", NotAString>>},
     {<<"output", NotAString>>},
     {<<"choices[0].message.content", <<"h", "i">> >>,
      <<"choices[0].text", <<"x">> >>,
      <<"choices[1].message.content", <<"l", "a", "t", "e", "r">> >>},
     {<<"choices[0].message.content", <<>> >>,
      <<"choices[0].text", <<"x">> >>},
     {<<"choices[0].message.content", <<" ">> >>,
      <<"choices[0].text", <<"x">> >>},
     {<<"choices[0].message.content", JsonNull>>,
      <<"choices[0].text", <<" ", "x">> >>},
     {<<"choices[0].text", <<"x">> >>,
      <<"choices[1].message.content", <<"l", "a", "t", "e", "r">> >>},
     {<<"choices[1].message.content", <<"l", "a", "t", "e", "r">> >>,
      <<"choices[1].text", <<"x">> >>},
     {<<"choices[0].message.content", NotAString>>,
      <<"choices[0].text", <<"x">> >>}}

NoResponse == [status |-> 0, body |-> {}, json |-> FALSE]

NoResult == [kind |-> "none", status |-> 0, json |-> {}, error |-> "", num |-> 0]

Returned(status, json) ==
    [kind |-> "return", status |-> status, json |-> json, error |-> "", num |-> 0]

Thrown(error, num) ==
    [kind |-> "throw", status |-> 0, json |-> {}, error |-> error, num |-> num]

\* a catch block that passes every error on as it came
CatchFetchError_Rethrow(error, timeoutMs) == Thrown(error, 0)

\* the catch block of postJson
CatchFetchError(error, timeoutMs) ==
    IF error = "AbortError"
    THEN Thrown("Request timed out after Nms.", timeoutMs)
    ELSE Thrown(error, 0)

\* response.json().catch(() => ({}))
ParseBody(response, readFails) ==
    IF readFails \/ ~response.json THEN EmptyObject ELSE response.body

HttpInit ==
    /\ httpPc = "idle"
    /\ httpPath = ""
    /\ httpTimer = "none"
    /\ aborted = FALSE
    /\ httpResponse = NoResponse
    /\ httpResult = NoResult
    /\ httpLog = <<>>

\* postJson up to the first await: the controller, the timer, the fetch
PostJson(path) ==
    /\ httpPc = "idle"
    /\ httpPc' = "fetching"
    /\ httpPath' = path
    /\ httpTimer' = "armed"
    /\ aborted' = FALSE
    /\ UNCHANGED <<httpResponse, httpResult, httpLog>>

\* the headers of the response arrive: fetch resolves, the body is awaited
OnResponse(status, body, isJson) ==
    /\ httpPc = "fetching"
    /\ httpPc' = "reading"
    /\ httpResponse' = [status |-> status, body |-> body, json |-> isJson]
    /\ httpLog' = Append(httpLog, "response")
    /\ UNCHANGED <<httpPath, httpTimer, aborted, httpResult>>

\* the body has arrived: it is parsed, postJson returns, finally clears the timer
OnBody ==
    /\ httpPc = "reading"
    /\ httpPc' = "done"
    /\ httpResult' = Returned(httpResponse.status, ParseBody(httpResponse, FALSE))
    /\ httpTimer' = ClearTimeout(httpTimer)
    /\ httpLog' = Append(httpLog, "body")
    /\ UNCHANGED <<httpPath, aborted, httpResponse>>

\* fetch rejects with a network error
OnNetworkError ==
    /\ httpPc = "fetching"
    /\ httpPc' = "done"
    /\ httpResult' = CatchFetchError("TypeError", requestTimeoutMs)
    /\ httpTimer' = ClearTimeout(httpTimer)
    /\ httpLog' = Append(httpLog, "network error")
    /\ UNCHANGED <<httpPath, aborted, httpResponse>>

\* the timer fires: controller.abort().  A pending fetch rejects with an
\* AbortError, which the catch block sees; a pending body read rejects with
\* one, which the catch of response.json() turns into the empty object.
OnHttpTimeout ==
    /\ httpTimer = "armed"
    /\ httpTimer' = "fired"
    /\ aborted' = TRUE
    /\ httpLog' = Append(httpLog, "timeout")
    /\ httpPc' = "done"
    /\ httpResult' = IF httpPc = "fetching"
                     THEN CatchFetchError("AbortError", requestTimeoutMs)
                     ELSE Returned(httpResponse.status, ParseBody(httpResponse, TRUE))
    /\ UNCHANGED <<httpPath, httpResponse>>

(***************************************************************************)
(* AiClient.improveWriting: the strategy chosen from the settings, the     *)
(* request each strategy builds, and the text each strategy makes of what  *)
(* its invoker delivered.  The promise of improveWriting settles like that *)
(* of spawnCommand: to a text, or to an Error.                             *)
(***************************************************************************)
\* typeof value === "string"
IsString(value) == value \notin {JsonNull, NotAString, Undefined}

\* the value at a path of a JSON object, undefined where it has none
Get(json, path) ==
    IF \E leaf \in json : leaf[1] = path
    THEN (CHOOSE leaf \in json : leaf[1] = path)[2]
    ELSE Undefined

\* a ?? b
Coalesce(a, b) == IF a \in {JsonNull, Undefined} THEN b ELSE a

ReturnOnlyDirective == <<
    "R", "e", "t", "u", "r", "n", " ", "o", "n", "l", "y", " ", "t", "h",
    "e", " ", "i", "m", "p", "r", "o", "v", "e", "d", " ", "m", "a", "r",
    "k", "d", "o", "w", "n", " ", "t", "e", "x", "t", " ", "w", "i", "t",
    "h", " ", "n", "o", " ", "p", "r", "e", "f", "a", "c", "e", "." >>

TextToImprove == <<
    "T", "e", "x", "t", " ", "t", "o", " ", "i", "m", "p", "r", "o", "v",
    "e", ":" >>

\* a prompt without the line that labels the text
CodexCliPrompt_NoLabel(input) ==
    Join(<<input.systemPrompt, <<>>, ReturnOnlyDirective, <<>>, input.text>>,
         <<LF>>)

\* const prompt = [...].join("\n")
CodexCliPrompt(input) ==
    Join(<<input.systemPrompt, <<>>, ReturnOnlyDirective, <<>>, TextToImprove,
           input.text>>,
         <<LF>>)

\* const args = [...]: the prompt is the last element of the vector
CodexCliArgs(input) ==
    << <<"e", "x", "e", "c">>,
       <<"-", "-", "s", "k", "i", "p", "-", "g", "i", "t", "-", "r", "e", "p",
         "o", "-", "c", "h", "e", "c", "k">>,
       <<"-", "m">>,
       model,
       CodexCliPrompt(input) >>

Temperature == <<"0", ".", "2">>

\* the body posted to /responses
ResponsesPayload(input) ==
    {<<"model", model>>,
     <<"temperature", Temperature>>,
     <<"input[0].role", <<"s", "y", "s", "t", "e", "m">> >>,
     <<"input[0].content[0].type", <<"i", "n", "p", "u", "t", "_", "t", "e", "x", "t">> >>,
     <<"input[0].content[0].text", input.systemPrompt>>,
     <<"input[1].role", <<"u", "s", "e", "r">> >>,
     <<"input[1].content[0].type", <<"i", "n", "p", "u", "t", "_", "t", "e", "x", "t">> >>,
     <<"input[1].content[0].text", input.text>>}

\* the body posted to /chat/completions
ChatCompletionsPayload(input) ==
    {<<"model", model>>,
     <<"temperature", Temperature>>,
     <<"messages[0].role", <<"s", "y", "s", "t", "e", "m">> >>,
     <<"messages[0].content", input.systemPrompt>>,
     <<"messages[1].role", <<"u", "s", "e", "r">> >>,
     <<"messages[1].content", input.text>>}

\* a dispatch that takes every HTTP call for a responses call
Strategy_IgnoresStyle(backend, style) ==
    IF backend = "codex_cli" THEN "codex_cli" ELSE "responses"

\* the two tests of improveWriting
Strategy(backend, style) ==
    IF backend = "codex_cli" THEN "codex_cli"
    ELSE IF style = "chat_completions" THEN "chat_completions"
    ELSE "responses"

\* an error reader that looks at the top-level message first
readApiError_MessageFirst(json, status) ==
    LET message == Coalesce(Get(json, "message"), Get(json, "error.message"))
    IN  IF IsString(message) /\ Trim(message) # <<>>
        THEN Rejected("text", Trim(message), 0)
        ELSE Rejected("API request failed with status N.", <<>>, status)

\* new Error(this.readApiError(response.json, response.status))
readApiError(json, status) ==
    LET message == Coalesce(Get(json, "error.message"), Get(json, "message"))
    IN  IF IsString(message) /\ Trim(message) # <<>>
        THEN Rejected("text", Trim(message), 0)
        ELSE Rejected("API request failed with status N.", <<>>, status)

\* the text blocks of the output items, in list order: two items of two blocks
BlockPaths ==
    <<"output[0].content[0].text", "output[0].content[1].text",
      "output[1].content[0].text", "output[1].content[1].text">>

\* the separator between two collected blocks
BlockSeparator_OneLineFeed == <<LF>>

BlockSeparator == <<LF, LF>>

\* output that is not an array gives "", and so does an array without text
extractTextFromResponseOutput(json) ==
    IF Get(json, "output") # Undefined THEN <<>>
    ELSE LET texts == [k \in 1..Len(BlockPaths) |-> Get(json, BlockPaths[k])]
             kept == SelectSeq(texts,
                         LAMBDA text : IsString(text) /\ Trim(text) # <<>>)
             chunks == [k \in 1..Len(kept) |-> Trim(kept[k])]
         IN  Trim(Join(chunks, BlockSeparator))

\* an error of postJson handed back as if it were the text
Rethrown_AsText(response) == Resolved(<<"e", "r", "r", "o", "r">>)

\* the error of postJson passes through the await to the caller
Rethrown(response) == Rejected(response.error, <<>>, response.num)

\* a codex call that passes the output on untested
improveWithCodexCli_Unchecked(result) ==
    IF result.kind = "reject" THEN result ELSE Resolved(Trim(result.text))

\* improveWithCodexCli from the await on
improveWithCodexCli(result) ==
    IF result.kind = "reject" THEN result
    ELSE IF Trim(result.text) = <<>>
    THEN Rejected("Codex CLI returned no text.", <<>>, 0)
    ELSE Resolved(Trim(result.text))

\* improveWithResponses from the await on; trim of a value that is no string
\* is a TypeError
improveWithResponses(response) ==
    IF response.kind = "throw" THEN Rethrown(response)
    ELSE IF response.status >= 400
    THEN readApiError(response.json, response.status)
    ELSE LET top == Coalesce(Get(response.json, "output_text"), <<>>)
             textFromOutput == extractTextFromResponseOutput(response.json)
         IN  IF ~IsString(top) THEN Rejected("TypeError", <<>>, 0)
             ELSE IF Trim(top) # <<>> THEN Resolved(Trim(top))
             ELSE IF textFromOutput = <<>>
             THEN Rejected("AI API returned no text.", <<>>, 0)
             ELSE Resolved(textFromOutput)

\* the first choice's text with an empty message content passed over
ChoiceText_SkipsEmpty(json) ==
    LET content == Get(json, "choices[0].message.content")
    IN  IF content \in {JsonNull, Undefined, <<>>}
        THEN Coalesce(Get(json, "choices[0].text"), <<>>)
        ELSE content

\* body.choices?.[0]?.message?.content ?? body.choices?.[0]?.text ?? ""
ChoiceText(json) ==
    Coalesce(Get(json, "choices[0].message.content"),
             Coalesce(Get(json, "choices[0].text"), <<>>))

\* improveWithChatCompletions from the await on
improveWithChatCompletions(response) ==
    IF response.kind = "throw" THEN Rethrown(response)
    ELSE IF response.status >= 400
    THEN readApiError(response.json, response.status)
    ELSE LET text == ChoiceText(response.json)
         IN  IF ~IsString(text) THEN Rejected("TypeError", <<>>, 0)
             ELSE IF Trim(text) = <<>>
             THEN Rejected("AI API returned no text.", <<>>, 0)
             ELSE Resolved(Trim(text))

NoInput ==
    [text |-> <<>>, systemPrompt |-> <<>>, codexThreadMode |-> "undefined",
     codexThreadId |-> Undefined]

GenInit ==
    /\ genPc = [c \in Calls |-> "idle"]
    /\ genInput = [c \in Calls |-> NoInput]
    /\ genResult = [c \in Calls |-> NoOutcome]
    /\ spawnLog = [c \in Calls |-> <<>>]
    /\ postLog = [c \in Calls |-> <<>>]
    /\ surfaced = [c \in Calls |-> <<>>]

\* improveWriting up to the await of its strategy: the process is spawned or
\* the request is sent
ImproveWriting(c, input, runtime) ==
    /\ genPc[c] = "idle"
    /\ genInput' = [genInput EXCEPT ![c] = input]
    /\ LET strategy == Strategy(aiBackend, apiStyle)
       IN  IF strategy = "codex_cli"
           THEN /\ SpawnCommand(c, runtime)
                /\ spawnLog' = [spawnLog EXCEPT ![c] =
                       IF runtime = "desktop"
                       THEN Append(@, CodexCliArgs(input)) ELSE @]
                /\ genPc' = [genPc EXCEPT ![c] = "awaiting spawn"]
                /\ UNCHANGED <<postLog, httpVars>>
           ELSE /\ PostJson(IF strategy = "chat_completions"
                            THEN "/chat/completions" ELSE "/responses")
                /\ postLog' = [postLog EXCEPT ![c] = Append(@,
                       [path |-> IF strategy = "chat_completions"
                                 THEN "/chat/completions" ELSE "/responses",
                        body |-> IF strategy = "chat_completions"
                                 THEN ChatCompletionsPayload(input)
                                 ELSE ResponsesPayload(input)])]
                /\ genPc' = [genPc EXCEPT ![c] = "awaiting post"]
                /\ UNCHANGED <<spawnLog, procVars>>
    /\ UNCHANGED <<aiBackend, apiStyle, model, genResult, surfaced>>

\* the promise of improveWriting settles; an Error reaches the caller
Finish(c, result) ==
    /\ genPc' = [genPc EXCEPT ![c] = "done"]
    /\ genResult' = [genResult EXCEPT ![c] = result]
    /\ surfaced' = [surfaced EXCEPT ![c] =
           IF result.kind = "reject" THEN Append(@, result) ELSE @]
    /\ UNCHANGED <<aiBackend, apiStyle, model, genInput, spawnLog, postLog>>

\* the await of spawnCommand returns or throws
AwaitSpawnCommand(c) ==
    /\ genPc[c] = "awaiting spawn"
    /\ outcome[c].kind # "none"
    /\ Finish(c, improveWithCodexCli(outcome[c]))

\* the await of postJson returns or throws
AwaitPostJson(c) ==
    /\ genPc[c] = "awaiting post"
    /\ httpResult.kind # "none"
    /\ Finish(c, IF httpPath = "/chat/completions"
                 THEN improveWithChatCompletions(httpResult)
                 ELSE improveWithResponses(httpResult))

(***************************************************************************)
(* The thread mode of a note: the Save button of FileThreadModeModal,      *)
(* clearThreadModeForCurrentFile, and the call improveCurrentWriting makes *)
(* with the override of the note.                                          *)
(***************************************************************************)
Files == {"a.md", "b.md"}

ThreadModes == {"new", "last", "specific"}

\* what the id field of the modal can hold when Save is clicked
ThreadIdValues == {<<>>, <<" ">>, <<"t">>}

\* the global thread mode and id of the settings
GlobalDirectives ==
    {[mode |-> "new", threadId |-> <<>>],
     [mode |-> "specific", threadId |-> <<"g">>]}

WritingSystemPrompt == <<"s">>

\* codexThreadOverrides[filePath] of a note without an override
NoOverride == [mode |-> "undefined", threadId |-> Undefined]

NoOp == [op |-> "none", filePath |-> "", mode |-> "", idValue |-> <<>>,
         changed |-> FALSE]

NoTarget == [filePath |-> "", override |-> NoOverride]

ThreadDefault ==
    /\ codexThreadOverrides = [f \in Files |-> NoOverride]
    /\ codexThreadMode = "new"
    /\ codexThreadId = <<>>
    /\ lastOp = NoOp
    /\ callTarget = [c \in Calls |-> NoTarget]

\* a Save that stores whatever the fields hold
RejectsSave_Never(mode, threadId) == FALSE

\* if (mode === "specific" && !threadId)
RejectsSave(mode, threadId) == mode = "specific" /\ threadId = <<>>

\* the click handler of the Save button
SaveThreadMode(filePath, mode, idValue) ==
    LET threadId == Trim(idValue)
    IN  /\ codexThreadOverrides' =
               IF RejectsSave(mode, threadId) THEN codexThreadOverrides
               ELSE [codexThreadOverrides EXCEPT
                        ![filePath] = [mode |-> mode, threadId |-> threadId]]
        /\ lastOp' = [op |-> "save", filePath |-> filePath, mode |-> mode,
                      idValue |-> idValue,
                      changed |-> codexThreadOverrides' # codexThreadOverrides]
        /\ UNCHANGED <<codexThreadMode, codexThreadId, callTarget>>

\* clearThreadModeForCurrentFile with a note open
clearThreadModeForCurrentFile(filePath) ==
    /\ codexThreadOverrides' =
           IF codexThreadOverrides[filePath] = NoOverride
           THEN codexThreadOverrides
           ELSE [codexThreadOverrides EXCEPT ![filePath] = NoOverride]
    /\ lastOp' = [op |-> "clear", filePath |-> filePath, mode |-> "",
                  idValue |-> <<>>,
                  changed |-> codexThreadOverrides' # codexThreadOverrides]
    /\ UNCHANGED <<codexThreadMode, codexThreadId, callTarget>>

\* const threadOverride = filePath ? ...codexThreadOverrides[filePath] : undefined
ThreadOverride(filePath) == codexThreadOverrides[filePath]

\* the argument of aiClient.improveWriting
ImproveWritingInput(filePath, text) ==
    [text |-> text, systemPrompt |-> WritingSystemPrompt,
     codexThreadMode |-> ThreadOverride(filePath).mode,
     codexThreadId |-> ThreadOverride(filePath).threadId]

\* improveCurrentWriting from the lookup of the override to the await of
\* improveWriting
improveCurrentWriting(c, filePath, text) ==
    /\ ImproveWriting(c, ImproveWritingInput(filePath, text), "desktop")
    /\ callTarget' = [callTarget EXCEPT
           ![c] = [filePath |-> filePath,
                   override |-> codexThreadOverrides[filePath]]]
    /\ UNCHANGED <<codexThreadOverrides, codexThreadMode, codexThreadId, lastOp>>

(***************************************************************************)
(* The improve workflow of one note: improveCurrentWriting from its checks *)
(* to the review modal, the buttons of ImprovedTextReviewModal, and what   *)
(* the user does to the note and its selection meanwhile.  Offsets count   *)
(* characters from 0; the selection covers the characters from + 1 .. to.  *)
(***************************************************************************)
NotePath == "a.md"

Dashes == <<"-", "-", "-">>

\* the text holds the piece at the offset
HasAt(text, offset, piece) ==
    /\ offset + Len(piece) <= Len(text)
    /\ SubSeq(text, offset + 1, offset + Len(piece)) = piece

\* \r?\n at the offset: the characters it takes, 0 where it does not match
LineBreakAt(text, offset) ==
    IF HasAt(text, offset, <<CR, LF>>) THEN 2
    ELSE IF HasAt(text, offset, <<LF>>) THEN 1
    ELSE 0

\* \r?\n---(?:\r?\n|$) matches at the offset
ClosingAt(text, offset) ==
    LET break == LineBreakAt(text, offset)
        after == offset + break + 3
    IN  /\ break > 0
        /\ HasAt(text, offset + break, Dashes)
        /\ (LineBreakAt(text, after) > 0 \/ after = Len(text))

\* the length of match[0] of /^---\r?\n[\s\S]*?\r?\n---(?:\r?\n|$)/, 0 without
\* a match: the lazy [\s\S]*? stops at the first offset where the rest matches
FrontMatterLength(text) ==
    IF ~(HasAt(text, 0, Dashes) /\ LineBreakAt(text, 3) > 0) THEN 0
    ELSE LET open     == 3 + LineBreakAt(text, 3)
             closings == {p \in open..Len(text) : ClosingAt(text, p)}
         IN  IF closings = {} THEN 0
             ELSE LET first == CHOOSE p \in closings : \A q \in closings : p <= q
                      after == first + LineBreakAt(text, first) + 3
                  IN  after + LineBreakAt(text, after)

\* a split that takes the opening line alone for the front matter
splitFrontMatter_OpeningLine(text) ==
    LET length == IF FrontMatterLength(text) = 0 THEN 0
                  ELSE 3 + LineBreakAt(text, 3)
    IN  [frontMatter |-> SubSeq(text, 1, length),
         body        |-> SubSeq(text, length + 1, Len(text))]

splitFrontMatter(text) ==
    LET length == FrontMatterLength(text)
    IN  [frontMatter |-> SubSeq(text, 1, length),
         body        |-> SubSeq(text, length + 1, Len(text))]

AdditionalInstruction == <<
    "A", "d", "d", "i", "t", "i", "o", "n", "a", "l", " ", "u", "s", "e",
    "r", " ", "i", "n", "s", "t", "r", "u", "c", "t", "i", "o", "n", " ",
    "f", "o", "r", " ", "t", "h", "i", "s", " ", "e", "d", "i", "t", ":" >>

\* const systemPrompt = userInstruction?.trim() ? [...].join("\n") : ...;
\* a call without the argument has the empty instruction
SystemPrompt(userInstruction) ==
    IF Trim(userInstruction) # <<>>
    THEN Join(<<WritingSystemPrompt, <<>>, AdditionalInstruction,
                Trim(userInstruction)>>, <<LF>>)
    ELSE WritingSystemPrompt

\* editor.getSelection()
Selected == SubSeq(noteValue, selection.from + 1, selection.to)

NoRun ==
    [sourceText |-> <<>>, useSelection |-> FALSE, preservedFrontMatter |-> <<>>,
     textForAi |-> <<>>, from |-> 0, to |-> 0, trigger |-> "none"]

NoWrite ==
    [op |-> "none", text |-> <<>>, shown |-> <<>>, from |-> 0, to |-> 0,
     replaced |-> <<>>]

EditIdle ==
    /\ editPc = [r \in Calls |-> "idle"]
    /\ run = [r \in Calls |-> NoRun]
    /\ textarea = [r \in Calls |-> <<>>]
    /\ diffPreview = [r \in Calls |-> <<>>]
    /\ notice = [r \in Calls |-> ""]
    /\ applied = [r \in Calls |-> NoWrite]
    /\ userEdits = 0

EditDefault ==
    /\ noteValue = <<>>
    /\ selection = [from |-> 0, to |-> 0]
    /\ EditIdle

PanelDefault ==
    /\ runButtonDisabled = FALSE
    /\ targetFilePath = ""
    /\ panelPath = "none"

\* the Notice of an early return of improveCurrentWriting, "" when the run
\* goes on to the backend
EarlyReturn(configured, hasView, sourceText, textForAi) ==
    IF ~configured
    THEN "AI backend is not configured. Run 'Set up Codex login'."
    ELSE IF ~hasView THEN "Open a Markdown note first."
    ELSE IF Trim(sourceText) = <<>> THEN "The current note is empty."
    ELSE IF Trim(textForAi) = <<>>
    THEN "No editable body text found outside front matter."
    ELSE ""

\* improveCurrentWriting up to the await of aiClient.improveWriting
StartImprove(r, trigger, userInstruction, configured, hasView, runtime) ==
    LET selectedText == Selected
        useSelection == Trim(selectedText) # <<>>
        sourceText   == IF useSelection THEN selectedText ELSE noteValue
        split        == splitFrontMatter(sourceText)
        preservedFrontMatter == IF useSelection THEN <<>> ELSE split.frontMatter
        textForAi    == IF useSelection THEN sourceText ELSE split.body
        early        == EarlyReturn(configured, hasView, sourceText, textForAi)
    IN  /\ editPc[r] = "idle"
        /\ IF early # ""
           THEN /\ editPc' = [editPc EXCEPT ![r] = "done"]
                /\ notice' = [notice EXCEPT ![r] = early]
                /\ run' = [run EXCEPT ![r] = [NoRun EXCEPT !.trigger = trigger]]
                /\ UNCHANGED <<procVars, httpVars, genVars>>
           ELSE /\ ImproveWriting(r,
                       [text            |-> textForAi,
                        systemPrompt    |-> SystemPrompt(userInstruction),
                        codexThreadMode |-> ThreadOverride(NotePath).mode,
                        codexThreadId   |-> ThreadOverride(NotePath).threadId],
                       runtime)
                /\ editPc' = [editPc EXCEPT ![r] = "generating"]
                /\ notice' = [notice EXCEPT ![r] = "Improving writing..."]
                /\ run' = [run EXCEPT ![r] =
                       [sourceText           |-> sourceText,
                        useSelection         |-> useSelection,
                        preservedFrontMatter |-> preservedFrontMatter,
                        textForAi            |-> textForAi,
                        from    |-> IF useSelection THEN selection.from ELSE 0,
                        to      |-> IF useSelection THEN selection.to
                                    ELSE Len(noteValue),
                        trigger |-> trigger]]
        /\ UNCHANGED <<noteValue, selection, textarea, diffPreview, applied,
                       userEdits>>

\* the command and the ribbon icon: improveCurrentWriting(plugin)
ImproveCommand(r, configured, hasView, runtime) ==
    /\ StartImprove(r, "command", <<>>, configured, hasView, runtime)
    /\ UNCHANGED panelVars

\* refreshDiff of the modal
RefreshDiff(original, value) ==
    renderDiffPreview(buildUnifiedDiff(original, value))

\* the finally block of runAskEdit left out
RunFinally_Missing(disabled) == disabled

\* finally { this.runButtonEl.disabled = false }
RunFinally(disabled) == FALSE

\* the await of aiClient.improveWriting returns or throws, and
\* improveCurrentWriting runs to its end: the review modal is opened, or a
\* Notice tells why not; a run of the panel then reaches the finally block
\* of runAskEdit
ContinueImprove(r) ==
    /\ editPc[r] = "generating"
    /\ AwaitSpawnCommand(r)
    /\ LET result == genResult'[r]
           improvedText == result.text
           finalImprovedText ==
               IF run[r].useSelection THEN improvedText
               ELSE run[r].preservedFrontMatter \o improvedText
       IN  IF result.kind = "reject"
           THEN /\ editPc' = [editPc EXCEPT ![r] = "done"]
                /\ notice' = [notice EXCEPT ![r] = "Failed to improve writing: M"]
                /\ UNCHANGED <<textarea, diffPreview>>
           ELSE IF Trim(improvedText) = <<>>
           THEN /\ editPc' = [editPc EXCEPT ![r] = "done"]
                /\ notice' = [notice EXCEPT ![r] = "No improved text returned."]
                /\ UNCHANGED <<textarea, diffPreview>>
           ELSE /\ editPc' = [editPc EXCEPT ![r] = "reviewing"]
                /\ notice' = [notice EXCEPT ![r] = ""]
                /\ textarea' = [textarea EXCEPT ![r] = finalImprovedText]
                /\ diffPreview' = [diffPreview EXCEPT ![r] =
                       RefreshDiff(run[r].sourceText, finalImprovedText)]
    /\ runButtonDisabled' = IF run[r].trigger = "panel"
                            THEN RunFinally(runButtonDisabled)
                            ELSE runButtonDisabled
    /\ panelPath' = IF run[r].trigger = "panel" THEN "finished" ELSE panelPath
    /\ UNCHANGED <<noteValue, selection, run, applied, userEdits, targetFilePath>>

\* the "input" event of the textarea: the user edits the proposed text
OnInput(r, value) ==
    /\ editPc[r] = "reviewing"
    /\ textarea' = [textarea EXCEPT ![r] = value]
    /\ diffPreview' = [diffPreview EXCEPT ![r] =
           RefreshDiff(run[r].sourceText, value)]
    /\ UNCHANGED <<noteValue, selection, editPc, run, notice, applied, userEdits>>

\* the Cancel button of the review modal
OnCancel(r) ==
    /\ editPc[r] = "reviewing"
    /\ editPc' = [editPc EXCEPT ![r] = "done"]
    /\ notice' = [notice EXCEPT ![r] = "Changes not applied."]
    /\ UNCHANGED <<noteValue, selection, run, textarea, diffPreview, applied,
                   userEdits>>

\* editor.replaceSelection(text): the text takes the place of the selection
\* the editor has now, the cursor ends behind it
replaceSelection(text) ==
    /\ noteValue' = SubSeq(noteValue, 1, selection.from) \o text
                    \o SubSeq(noteValue, selection.to + 1, Len(noteValue))
    /\ selection' = [from |-> selection.from + Len(text),
                     to   |-> selection.from + Len(text)]

\* editor.setValue(text)
setValue(text) ==
    /\ noteValue' = text
    /\ selection' = [from |-> 0, to |-> 0]

\* an apply button that writes the text the modal was opened with
ApprovedText_AsProposed(r) ==
    IF run[r].useSelection THEN genResult[r].text
    ELSE run[r].preservedFrontMatter \o genResult[r].text

\* this.options.onApply(editorEl.value)
ApprovedText(r) == textarea[r]

\* the apply button of the review modal, with the onApply of the run
OnApply(r) ==
    LET approvedText == ApprovedText(r)
    IN  /\ editPc[r] = "reviewing"
        /\ IF run[r].useSelection
           THEN replaceSelection(approvedText)
           ELSE setValue(approvedText)
        /\ applied' = [applied EXCEPT ![r] =
               [op       |-> IF run[r].useSelection THEN "replaceSelection"
                             ELSE "setValue",
                text     |-> approvedText,
                shown    |-> textarea[r],
                from     |-> IF run[r].useSelection THEN selection.from ELSE 0,
                to       |-> IF run[r].useSelection THEN selection.to
                             ELSE Len(noteValue),
                replaced |-> IF run[r].useSelection THEN Selected ELSE noteValue]]
        /\ editPc' = [editPc EXCEPT ![r] = "done"]
        /\ notice' = [notice EXCEPT ![r] = "Writing improved."]
        /\ UNCHANGED <<run, textarea, diffPreview, userEdits>>

\* the user moves the selection of the note
UserSelects(from, to) ==
    /\ userEdits < MaxUserEdits
    /\ from <= to
    /\ to <= Len(noteValue)
    /\ selection # [from |-> from, to |-> to]
    /\ selection' = [from |-> from, to |-> to]
    /\ userEdits' = userEdits + 1
    /\ UNCHANGED <<noteValue, editPc, run, textarea, diffPreview, notice,
                   applied>>

\* the user types a character into the note: it takes the place of the
\* selection
UserTypes(char) ==
    /\ userEdits < MaxUserEdits
    /\ replaceSelection(<<char>>)
    /\ userEdits' = userEdits + 1
    /\ UNCHANGED <<editPc, run, textarea, diffPreview, notice, applied>>

(***************************************************************************)
(* AskEditPanelView: the run button and runAskEdit.  A disabled button     *)
(* dispatches no click.                                                    *)
(***************************************************************************)
Clickable(disabled) == ~disabled

\* getActiveFile()?.path ?? this.targetFilePath ?? this.getLastMarkdownPath(),
\* "" for undefined
ResolveTarget(activePath, lastMarkdownPath) ==
    IF activePath # "" THEN activePath
    ELSE IF targetFilePath # "" THEN targetFilePath
    ELSE lastMarkdownPath

\* the click handler of the run button: runAskEdit up to the await of
\* improveCurrentWriting, and to its end where that returns at once
RunAskEdit(r, promptValue, activePath, lastMarkdownPath, configured, hasView, runtime) ==
    LET prompt == Trim(promptValue)
        target == ResolveTarget(activePath, lastMarkdownPath)
    IN  /\ Clickable(runButtonDisabled)
        /\ editPc[r] = "idle"
        /\ IF prompt = <<>>
           THEN /\ panelPath' = "blank prompt"
                /\ UNCHANGED <<runButtonDisabled, targetFilePath, editVars,
                               procVars, httpVars, genVars>>
           ELSE IF target = ""
           THEN /\ panelPath' = "no target"
                /\ runButtonDisabled' = FALSE
                /\ targetFilePath' = target
                /\ UNCHANGED <<editVars, procVars, httpVars, genVars>>
           ELSE /\ StartImprove(r, "panel", prompt, configured, hasView, runtime)
                /\ targetFilePath' = target
                /\ IF editPc'[r] = "generating"
                   THEN /\ runButtonDisabled' = TRUE
                        /\ panelPath' = "awaiting"
                   ELSE /\ runButtonDisabled' = RunFinally(TRUE)
                        /\ panelPath' = "finished"

(***************************************************************************)
(* Specifications.                                                         *)
(***************************************************************************)
DefaultModel == <<"g", "p", "t", "-", "5", "-", "c", "o", "d", "e", "x">>

\* DEFAULT_SETTINGS
DefaultSettings ==
    /\ aiBackend = "codex_cli"
    /\ apiStyle = "responses"
    /\ model = DefaultModel

\* the diff of one pair of texts
InitDiff ==
    /\ DiffInit
    /\ requestTimeoutMs = 60000
    /\ ProcInit
    /\ HttpInit
    /\ DefaultSettings
    /\ GenInit
    /\ ThreadDefault
    /\ EditDefault
    /\ PanelDefault

NextDiff ==
    BuildUnifiedDiff
    /\ UNCHANGED <<requestTimeoutMs, procVars, httpVars, genVars, threadVars,
                   editVars, panelVars>>

SpecDiff == InitDiff /\ [][NextDiff]_vars

\* one call of the process invoker with the events of its process and timer
InitProc ==
    /\ DiffIdle
    /\ requestTimeoutMs \in TimeoutChoices
    /\ ProcInit
    /\ HttpInit
    /\ DefaultSettings
    /\ GenInit
    /\ ThreadDefault
    /\ EditDefault
    /\ PanelDefault

procFrame == <<diffVars, requestTimeoutMs, httpVars, genVars, threadVars,
               editVars, panelVars>>

NextProc ==
    \/ \E runtime \in {"desktop", "no require", "no spawn"} :
           SpawnCommand(1, runtime) /\ UNCHANGED procFrame
    \/ \E chunk \in StdoutChunks : OnStdoutData(1, chunk) /\ UNCHANGED procFrame
    \/ \E chunk \in StderrChunks : OnStderrData(1, chunk) /\ UNCHANGED procFrame
    \/ OnTimeout(1) /\ UNCHANGED procFrame
    \/ \E code \in ExitCodes : OnClose(1, code) /\ UNCHANGED procFrame

SpecProc == InitProc /\ [][NextProc]_vars

\* the same, with the armed timer of a call firing in the end
SpecProcFair == SpecProc /\ WF_vars(OnTimeout(1) /\ UNCHANGED procFrame)

\* two calls of the process invoker in flight together, each with the events
\* of its own process and timer
PairStdoutChunks == {<<"o", "k">>}

PairStderrChunks == {<<"b", "a", "d">>}

InitProcPair ==
    /\ DiffIdle
    /\ requestTimeoutMs = 60000
    /\ ProcInit
    /\ HttpInit
    /\ DefaultSettings
    /\ GenInit
    /\ ThreadDefault
    /\ EditDefault
    /\ PanelDefault

NextProcPair ==
    \/ \E c \in Calls : SpawnCommand(c, "desktop") /\ UNCHANGED procFrame
    \/ \E c \in Calls, chunk \in PairStdoutChunks :
           OnStdoutData(c, chunk) /\ UNCHANGED procFrame
    \/ \E c \in Calls, chunk \in PairStderrChunks :
           OnStderrData(c, chunk) /\ UNCHANGED procFrame
    \/ \E c \in Calls : OnTimeout(c) /\ UNCHANGED procFrame
    \/ \E c \in Calls, code \in {0, 1} : OnClose(c, code) /\ UNCHANGED procFrame

SpecProcPair == InitProcPair /\ [][NextProcPair]_vars

\* one call of the HTTP invoker with the events of its request and timer
InitHttp ==
    /\ DiffIdle
    /\ requestTimeoutMs \in TimeoutChoices
    /\ ProcInit
    /\ HttpInit
    /\ DefaultSettings
    /\ GenInit
    /\ ThreadDefault
    /\ EditDefault
    /\ PanelDefault

httpFrame == <<diffVars, requestTimeoutMs, procVars, genVars, threadVars,
               editVars, panelVars>>

NextHttp ==
    \/ \E path \in Paths : PostJson(path) /\ UNCHANGED httpFrame
    \/ \E status \in Statuses, body \in JsonBodies, isJson \in BOOLEAN :
           OnResponse(status, body, isJson) /\ UNCHANGED httpFrame
    \/ OnBody /\ UNCHANGED httpFrame
    \/ OnNetworkError /\ UNCHANGED httpFrame
    \/ OnHttpTimeout /\ UNCHANGED httpFrame

SpecHttp == InitHttp /\ [][NextHttp]_vars

\* one call of improveWriting under every backend and endpoint style, with
\* the events of its process or of its request
Backends == {"codex_cli", "openai_api"}

ApiStyles == {"responses", "chat_completions"}

Inputs ==
    {[text |-> text, systemPrompt |-> WritingSystemPrompt,
      codexThreadMode |-> "undefined", codexThreadId |-> Undefined] :
        text \in {<<"x">>, <<"a", LF, "b">>}}

InitGen ==
    /\ DiffIdle
    /\ requestTimeoutMs \in TimeoutChoices
    /\ ProcInit
    /\ HttpInit
    /\ aiBackend \in Backends
    /\ apiStyle \in ApiStyles
    /\ model = DefaultModel
    /\ GenInit
    /\ ThreadDefault
    /\ EditDefault
    /\ PanelDefault

genFrame == <<diffVars, requestTimeoutMs, procVars, httpVars, threadVars,
              editVars, panelVars>>

NextGen ==
    \/ \E input \in Inputs, runtime \in {"desktop", "no require", "no spawn"} :
           ImproveWriting(1, input, runtime)
           /\ UNCHANGED <<diffVars, requestTimeoutMs, threadVars, editVars,
                          panelVars>>
    \/ \E chunk \in StdoutChunks : OnStdoutData(1, chunk) /\ UNCHANGED procFrame
    \/ \E chunk \in StderrChunks : OnStderrData(1, chunk) /\ UNCHANGED procFrame
    \/ OnTimeout(1) /\ UNCHANGED procFrame
    \/ \E code \in ExitCodes : OnClose(1, code) /\ UNCHANGED procFrame
    \/ \E status \in Statuses, body \in JsonBodies, isJson \in BOOLEAN :
           OnResponse(status, body, isJson) /\ UNCHANGED httpFrame
    \/ OnBody /\ UNCHANGED httpFrame
    \/ OnNetworkError /\ UNCHANGED httpFrame
    \/ OnHttpTimeout /\ UNCHANGED httpFrame
    \/ AwaitSpawnCommand(1) /\ UNCHANGED genFrame
    \/ AwaitPostJson(1) /\ UNCHANGED genFrame

SpecGen == InitGen /\ [][NextGen]_vars

\* the thread modes of two notes under Save and Clear, and two calls of the
\* Codex CLI backend made in between
InitThread ==
    /\ DiffIdle
    /\ requestTimeoutMs = 60000
    /\ ProcInit
    /\ HttpInit
    /\ DefaultSettings
    /\ GenInit
    /\ codexThreadOverrides = [f \in Files |-> NoOverride]
    /\ \E global \in GlobalDirectives :
           codexThreadMode = global.mode /\ codexThreadId = global.threadId
    /\ lastOp = NoOp
    /\ callTarget = [c \in Calls |-> NoTarget]
    /\ EditDefault
    /\ PanelDefault

threadFrame == <<diffVars, requestTimeoutMs, procVars, httpVars, genVars,
                editVars, panelVars>>

NextThread ==
    \/ \E filePath \in Files, mode \in ThreadModes, idValue \in ThreadIdValues :
           SaveThreadMode(filePath, mode, idValue) /\ UNCHANGED threadFrame
    \/ \E filePath \in Files :
           clearThreadModeForCurrentFile(filePath) /\ UNCHANGED threadFrame
    \/ \E c \in Calls, filePath \in Files :
           improveCurrentWriting(c, filePath, <<"x">>)
           /\ UNCHANGED <<diffVars, requestTimeoutMs, editVars, panelVars>>

SpecThread == InitThread /\ [][NextThread]_vars

\* one run of the improve workflow on one note, started by the command or by
\* the panel, with the events of its process and what the user does meanwhile.
\* The notes: plain text; front matter and a body; front matter alone; a
\* blank note; front matter with \r\n line ends; a "---" inside the block
\* that closes nothing; and an empty block, which the pattern does not match
NoteTexts ==
    {<<"a", " ", "b">>,
     <<"-", "-", "-", LF, "k", LF, "-", "-", "-", LF, "a", "b">>,
     <<"-", "-", "-", LF, "k", LF, "-", "-", "-">>,
     <<" ", LF>>,
     <<"-", "-", "-", CR, LF, "k", CR, LF, "-", "-", "-", CR, LF, "b">>,
     <<"-", "-", "-", LF, "k", LF, "-", "-", "-", "x", LF, "-", "-", "-", LF, "b">>,
     <<"-", "-", "-", LF, "-", "-", "-", LF, "b">>}

SelectionMarks == {0, 1, 2}

Selections(text) ==
    {[from |-> a, to |-> b] : a \in SelectionMarks, b \in SelectionMarks} \cap
    {range \in [from : 0..Len(text), to : 0..Len(text)] : range.from <= range.to}

\* what the user leaves in the textarea of the modal
TextareaValues == {<<"Q">>, <<>>}

\* what the prompt field of the panel holds at a click
PromptValues == {<<>>, <<" ">>, <<"p">>}

Runtimes == {"desktop", "no require"}

ImprovedChunks == {<<"o", "k">>}

InitEdit ==
    /\ DiffIdle
    /\ requestTimeoutMs = 60000
    /\ ProcInit
    /\ HttpInit
    /\ DefaultSettings
    /\ GenInit
    /\ ThreadDefault
    /\ noteValue \in NoteTexts
    /\ selection \in Selections(noteValue)
    /\ EditIdle
    /\ PanelDefault

editFrame == <<diffVars, requestTimeoutMs, threadVars>>

userFrame == <<diffVars, requestTimeoutMs, procVars, httpVars, genVars,
               threadVars, panelVars>>

NextEdit ==
    \/ \E configured \in BOOLEAN, hasView \in BOOLEAN, runtime \in Runtimes :
           ImproveCommand(1, configured, hasView, runtime) /\ UNCHANGED editFrame
    \/ \E promptValue \in PromptValues, activePath \in {"", NotePath},
          lastMarkdownPath \in {"", NotePath}, configured \in BOOLEAN,
          hasView \in BOOLEAN, runtime \in Runtimes :
           RunAskEdit(1, promptValue, activePath, lastMarkdownPath, configured,
                      hasView, runtime)
           /\ UNCHANGED editFrame
    \/ \E chunk \in ImprovedChunks : OnStdoutData(1, chunk) /\ UNCHANGED procFrame
    \/ OnTimeout(1) /\ UNCHANGED procFrame
    \/ \E code \in {0, 1} : OnClose(1, code) /\ UNCHANGED procFrame
    \/ ContinueImprove(1) /\ UNCHANGED <<editFrame, procVars, httpVars>>
    \/ \E value \in TextareaValues : OnInput(1, value) /\ UNCHANGED userFrame
    \/ OnCancel(1) /\ UNCHANGED userFrame
    \/ OnApply(1) /\ UNCHANGED userFrame
    \/ \E from \in SelectionMarks, to \in SelectionMarks :
           UserSelects(from, to) /\ UNCHANGED userFrame
    \/ UserTypes("Z") /\ UNCHANGED userFrame

SpecEdit == InitEdit /\ [][NextEdit]_vars

\* one panel and the two runs it can start one after the other, with a run
\* of the command beside them; the note is open with nothing selected
InitPanel ==
    /\ DiffIdle
    /\ requestTimeoutMs = 60000
    /\ ProcInit
    /\ HttpInit
    /\ DefaultSettings
    /\ GenInit
    /\ ThreadDefault
    /\ noteValue = <<"a", " ", "b">>
    /\ selection = [from |-> 0, to |-> 0]
    /\ EditIdle
    /\ PanelDefault

NextPanel ==
    \/ \E r \in Calls, promptValue \in PromptValues, activePath \in {"", NotePath},
          lastMarkdownPath \in {"", NotePath}, configured \in BOOLEAN,
          hasView \in BOOLEAN, runtime \in Runtimes :
           RunAskEdit(r, promptValue, activePath, lastMarkdownPath, configured,
                      hasView, runtime)
           /\ UNCHANGED editFrame
    \/ \E r \in Calls :
           ImproveCommand(r, TRUE, TRUE, "desktop") /\ UNCHANGED editFrame
    \/ \E c \in Calls, chunk \in ImprovedChunks :
           OnStdoutData(c, chunk) /\ UNCHANGED procFrame
    \/ \E c \in Calls : OnTimeout(c) /\ UNCHANGED procFrame
    \/ \E c \in Calls, code \in {0, 1} : OnClose(c, code) /\ UNCHANGED procFrame
    \/ \E r \in Calls :
           ContinueImprove(r) /\ UNCHANGED <<editFrame, procVars, httpVars>>

SpecPanel == InitPanel /\ [][NextPanel]_vars

(***************************************************************************)
(* Properties of the diff.                                                 *)
(***************************************************************************)
DiffDone == diffPc = "done"

\* the line-count product is at or below the ceiling of 250,000
WithinGuard ==
    Len(splitLines(originalText)) * Len(splitLines(updatedText)) <= 250000

\* the operations of the returned diff, each with the line it carries
Script ==
    LET shown == renderDiffPreview(diffResult)
    IN  [k \in 1..Len(shown) |->
            <<shown[k].op, SubSeq(shown[k].line, 2, Len(shown[k].line))>>]

\* the lines of the operations of the given kinds, in emitted order
LinesOf(script, kinds) ==
    LET kept == SelectSeq(script, LAMBDA e : e[1] \in kinds)
    IN  [k \in 1..Len(kept) |-> kept[k][2]]

CountOf(script, kind) == Len(SelectSeq(script, LAMBDA e : e[1] = kind))

RECURSIVE LcsLength(_, _)
LcsLength(x, y) ==
    IF x = <<>> \/ y = <<>> THEN 0
    ELSE IF Head(x) = Head(y) THEN 1 + LcsLength(Tail(x), Tail(y))
    ELSE LET a == LcsLength(Tail(x), y)
             b == LcsLength(x, Tail(y))
         IN  IF a >= b THEN a ELSE b

\* C4: within the size guard, the Equal and Delete lines of the returned diff,
\* in emitted order, are the lines of the original text, and the Equal and
\* Insert lines are the lines of the updated text.
C4_RoundTrip ==
    (DiffDone /\ WithinGuard) =>
        /\ LinesOf(Script, {"Equal", "Delete"}) = splitLines(originalText)
        /\ LinesOf(Script, {"Equal", "Insert"}) = splitLines(updatedText)

\* a diff that holds all three kinds of operation
C4_Witness ==
    /\ DiffDone
    /\ WithinGuard
    /\ \A kind \in {"Equal", "Insert", "Delete"} : CountOf(Script, kind) > 0

\* C5: within the size guard, the diff has as many Equal operations as a
\* longest common subsequence of the two line sequences has lines, and
\* n + m - 2 * LCS Insert and Delete operations.
C5_Minimal ==
    (DiffDone /\ WithinGuard) =>
        LET x   == splitLines(originalText)
            y   == splitLines(updatedText)
            lcs == LcsLength(x, y)
        IN  /\ CountOf(Script, "Equal") = lcs
            /\ CountOf(Script, "Insert") + CountOf(Script, "Delete")
                   = Len(x) + Len(y) - 2 * lcs

\* two texts of three lines each with a two-line common subsequence
C5_Witness ==
    /\ DiffDone
    /\ Len(splitLines(originalText)) = 3
    /\ Len(splitLines(updatedText)) = 3
    /\ originalText # updatedText
    /\ CountOf(Script, "Equal") = 2

AB == <<"a", LF, "b">>
BA == <<"b", LF, "a">>

\* C6, as claimed: original lines a, b and updated lines b, a give
\* Delete a, Equal b, Insert a.
C6_Claimed ==
    (DiffDone /\ originalText = AB /\ updatedText = BA) =>
        Script = << <<"Delete", <<"a">> >>, <<"Equal", <<"b">> >>,
                    <<"Insert", <<"a">> >> >>

\* C6, amended: original lines a, b and updated lines b, a give
\* Insert b, Equal a, Delete b, in that order.
C6_TieBreak ==
    (DiffDone /\ originalText = AB /\ updatedText = BA) =>
        Script = << <<"Insert", <<"b">> >>, <<"Equal", <<"a">> >>,
                    <<"Delete", <<"b">> >> >>

C6_Witness == DiffDone /\ originalText = AB /\ updatedText = BA /\ Len(Script) = 3

\* C7, as claimed: diff("", "") is one Equal of the empty line, diff("", "x")
\* is the one operation Insert x, diff("x", "") the one operation Delete x.
C7_Claimed ==
    DiffDone =>
        /\ (originalText = <<>> /\ updatedText = <<>>) =>
               Script = << <<"Equal", <<>> >> >>
        /\ (originalText = <<>> /\ updatedText = <<"x">>) =>
               Script = << <<"Insert", <<"x">> >> >>
        /\ (originalText = <<"x">> /\ updatedText = <<>>) =>
               Script = << <<"Delete", <<"x">> >> >>

\* C7, amended: diff("", "") is one Equal of the empty line; diff("", "x") is
\* Insert x then Delete of the empty line; diff("x", "") is Insert of the
\* empty line then Delete x.
C7_EmptyCases ==
    DiffDone =>
        /\ (originalText = <<>> /\ updatedText = <<>>) =>
               Script = << <<"Equal", <<>> >> >>
        /\ (originalText = <<>> /\ updatedText = <<"x">>) =>
               Script = << <<"Insert", <<"x">> >>, <<"Delete", <<>> >> >>
        /\ (originalText = <<"x">> /\ updatedText = <<>>) =>
               Script = << <<"Insert", <<>> >>, <<"Delete", <<"x">> >> >>

C7_Witness ==
    DiffDone /\ originalText = <<>> /\ updatedText = <<"x">> /\ Len(Script) = 2

\* C8: within the size guard the diff of a text with itself is one Equal
\* operation per line of the text, in the order of the lines.
C8_Identity ==
    (DiffDone /\ WithinGuard /\ originalText = updatedText) =>
        LET x == splitLines(originalText)
        IN  Script = [k \in 1..Len(x) |-> <<"Equal", x[k]>>]

\* a text of several different lines diffed with itself
C8_Witness ==
    /\ DiffDone
    /\ originalText = updatedText
    /\ Len(Script) >= 3
    /\ Script[1] # Script[2]

\* C9: the sentinel message is returned exactly when the line-count product
\* exceeds 250,000 (a product of exactly 250,000 does not trip the guard); at
\* or below the ceiling the result is a script of tagged lines.
C9_SizeGuard ==
    /\ \A p \in {<<500, 500>>, <<501, 500>>, <<1, 250000>>, <<250001, 1>>} :
           TooLarge(p[1], p[2]) <=> p[1] * p[2] > 250000
    /\ DiffDone =>
        /\ diffResult = Sentinel <=> ~WithinGuard
        /\ WithinGuard =>
               LET lines == SplitOnLineFeed(diffResult)
               IN  \A k \in 1..Len(lines) :
                       lines[k] # <<>> /\ lines[k][1] \in {" ", "+", "-"}

\* a pair of texts of 501 and 500 lines got the sentinel
C9_Witness ==
    /\ DiffDone
    /\ diffResult = Sentinel
    /\ Len(splitLines(originalText)) = 501
    /\ Len(splitLines(updatedText)) = 500

(***************************************************************************)
(* Properties of the process invoker.                                      *)
(***************************************************************************)
RECURSIVE Flatten(_)
Flatten(chunks) ==
    IF chunks = <<>> THEN <<>> ELSE Head(chunks) \o Flatten(Tail(chunks))

\* t is s without the white space at its two ends
IsTrimOf(t, s) ==
    /\ t = <<>> \/ (t[1] \notin WhiteSpace /\ t[Len(t)] \notin WhiteSpace)
    /\ \E lead \in 0..(Len(s) - Len(t)) :
          /\ t = SubSeq(s, lead + 1, lead + Len(t))
          /\ \A k \in 1..Len(s) :
                 (k <= lead \/ k > lead + Len(t)) => s[k] \in WhiteSpace

Spawned(c) == child[c] # "none"

TimeoutFirst(c) == eventLog[c] # <<>> /\ Head(eventLog[c]) = "timeout"

CloseFirst(c) == eventLog[c] # <<>> /\ Head(eventLog[c]) = "close"

\* C1: a call that spawned its process is settled by the first of the timeout
\* and the close event and by nothing else: resolve or reject is called once,
\* when the first of the two runs, and the outcome stays the one that event
\* gave; after a timeout a close with any exit code leaves a timeout failure.
C1_SettledOnce ==
    \A c \in Calls : Spawned(c) =>
        /\ settleCalls[c] = (IF eventLog[c] = <<>> THEN 0 ELSE 1)
        /\ eventLog[c] = <<>> => outcome[c] = NoOutcome
        /\ TimeoutFirst(c) => outcome[c] = TimedOutError(requestTimeoutMs)
        /\ CloseFirst(c) =>
               /\ outcome[c] = CloseResult(closeCode[c], stdout[c], stderr[c])
               /\ outcome[c] # TimedOutError(requestTimeoutMs)

\* the process closes with exit code 0 after the timeout has fired
C1_Witness ==
    /\ eventLog[1] = <<"timeout", "close">>
    /\ closeCode[1] = 0
    /\ outChunks[1] # <<>>

C2_TimeoutKills ==
    \A c \in Calls : TimeoutFirst(c) =>
        /\ signals[c] = <<"SIGTERM">>
        /\ outcome[c] = TimedOutError(requestTimeoutMs)
        /\ procPc[c] = "done"

\* C2: when the timer fires with the process not closed, the process is sent
\* SIGTERM and the call fails with the timeout error; and with a timer that
\* fires in the end, a pending call whose process does not close is settled
\* as a timeout failure in the end.
C2_Timeout ==
    /\ []C2_TimeoutKills
    /\ (procPc[1] = "pending")
           ~> (child[1] = "closed" \/ outcome[1] = TimedOutError(requestTimeoutMs))

\* the timer has fired on a running process, which has not closed since
C2_Witness ==
    /\ eventLog[1] = <<"timeout">>
    /\ child[1] = "running"
    /\ signals[1] = <<"SIGTERM">>

\* C3: when the process closes first, exit code 0 resolves the call with the
\* trimmed concatenation of the stdout chunks received; any other exit code
\* rejects it with the trimmed stderr text, or with the "exited with code N"
\* message when that text is empty.  Exit 0 with stdout "ok" gives "ok".
C3_CloseResult ==
    \A c \in Calls : CloseFirst(c) =>
        LET out  == Flatten(outChunks[c])
            err  == Flatten(errChunks[c])
            code == closeCode[c]
        IN  /\ code = 0 =>
                /\ outcome[c].kind = "resolve"
                /\ IsTrimOf(outcome[c].text, out)
            /\ code # 0 =>
                /\ outcome[c].kind = "reject"
                /\ (\E k \in 1..Len(err) : err[k] \notin WhiteSpace) =>
                       /\ outcome[c].tmpl = "text"
                       /\ IsTrimOf(outcome[c].text, err)
                /\ (\A k \in 1..Len(err) : err[k] \in WhiteSpace) =>
                       /\ outcome[c].tmpl = "Codex CLI exited with code N."
                       /\ outcome[c].num = code
            /\ (code = 0 /\ outChunks[c] = << <<"o", "k">> >>) =>
                   outcome[c] = Resolved(<<"o", "k">>)
            /\ (code = 2 /\ errChunks[c] = << <<"b", "a", "d">> >>) =>
                   outcome[c] = Rejected("text", <<"b", "a", "d">>, 0)

\* exit code 0 after the chunks " " and "ok": the call resolved with "ok"
C3_Witness ==
    /\ eventLog[1] = <<"close">>
    /\ closeCode[1] = 0
    /\ outChunks[1] = << <<" ">>, <<"o", "k">> >>
    /\ outcome[1] = Resolved(<<"o", "k">>)

(***************************************************************************)
(* Properties of the HTTP invoker.                                         *)
(***************************************************************************)
\* C10: when the timer fires before any response has arrived, the request is
\* aborted and postJson throws the timeout error with the configured number
\* of milliseconds: no other error, and no status result.
C10_HttpTimeout ==
    (httpLog # <<>> /\ Head(httpLog) = "timeout") =>
        /\ aborted
        /\ httpPc = "done"
        /\ httpResult = Thrown("Request timed out after Nms.", requestTimeoutMs)

C10_Witness ==
    /\ httpLog = <<"timeout">>
    /\ httpResult.kind = "throw"

(***************************************************************************)
(* Properties of improveWriting.                                           *)
(***************************************************************************)
GenDone == genPc[1] = "done"

\* postJson of the call returned a status and a parsed body
Answered == GenDone /\ httpResult.kind = "return"

\* the values a JSON object holds at a path: one or none
Values(json, path) == {leaf[2] : leaf \in {l \in json : l[1] = path}}

\* the values at a path that are present, that is neither missing nor null
Present(json, path) == Values(json, path) \ {JsonNull}

NoTextError == Rejected("AI API returned no text.", <<>>, 0)

ResponsesAnswered ==
    Answered /\ httpPath = "/responses" /\ httpResult.status < 400

\* the values of the nested text blocks of a body that are strings and pass
\* the test, in list order
NestedTexts(json, Test(_)) ==
    LET holds(path) == \E v \in Values(json, path) : IsString(v) /\ Test(v)
        paths == SelectSeq(BlockPaths, holds)
    IN  [k \in 1..Len(paths) |-> CHOOSE v \in Values(json, paths[k]) : TRUE]

\* C12 as claimed: the result of a successful responses call is the
\* top-level output_text when that is present and not the empty text, and
\* otherwise every nested text block in list order, joined by a blank line.
C12_Claimed ==
    (ResponsesAnswered
     /\ \A v \in Present(httpResult.json, "output_text") : IsString(v)) =>
        LET json == httpResult.json
            top == {v \in Present(json, "output_text") : v # <<>>}
            blocks == NestedTexts(json, LAMBDA v : TRUE)
            claimed == IF top # {} THEN CHOOSE v \in top : TRUE
                       ELSE Join(blocks, <<LF, LF>>)
        IN  /\ Trim(claimed) # <<>> => genResult[1].kind = "resolve"
            /\ genResult[1].kind = "resolve" =>
                   genResult[1].text = Trim(claimed)

\* C12: the result of a successful responses call is the trimmed top-level
\* output_text when that holds a character other than white space, and
\* otherwise the nested text blocks that hold such a character, each
\* trimmed, in list order, joined by a blank line; with no such block the
\* call fails for want of text, and with an output_text that is no string
\* it fails with a TypeError.
C12_Responses ==
    ResponsesAnswered =>
        LET json == httpResult.json
            top == Present(json, "output_text")
            usable == {v \in top : IsString(v) /\ Trim(v) # <<>>}
            blocks == NestedTexts(json, LAMBDA v : Trim(v) # <<>>)
            joined == Join([k \in 1..Len(blocks) |-> Trim(blocks[k])],
                           <<LF, LF>>)
        IN  IF \E v \in top : ~IsString(v)
            THEN genResult[1] = Rejected("TypeError", <<>>, 0)
            ELSE IF usable # {}
            THEN \A v \in usable : genResult[1] = Resolved(Trim(v))
            ELSE IF joined # <<>> THEN genResult[1] = Resolved(joined)
            ELSE genResult[1] = NoTextError

C12_Witness ==
    /\ ResponsesAnswered
    /\ httpResult.json =
           {<<"output_text", <<>> >>,
            <<"output[0].content[0].text", <<"h", "e", "l", "l", "o">> >>,
            <<"output[1].content[0].text", <<"w", "o", "r", "l", "d">> >>}
    /\ genResult[1] = Resolved(<<"h", "e", "l", "l", "o", LF, LF,
                                 "w", "o", "r", "l", "d">>)

\* a successful answer to a chat completions request
ChatAnswered ==
    Answered /\ httpPath = "/chat/completions" /\ httpResult.status < 400

\* C13 as claimed: the result of a successful chat completions call is the
\* message content of the first choice, and the bare text of the first
\* choice whenever that content is absent or empty; no later choice is used.
C13_Claimed ==
    (ChatAnswered
     /\ \A v \in Present(httpResult.json, "choices[0].message.content")
               \cup Present(httpResult.json, "choices[0].text") : IsString(v)) =>
        LET json == httpResult.json
            content == Present(json, "choices[0].message.content") \ {<<>>}
            bare == Present(json, "choices[0].text")
            claimed == IF content # {} THEN CHOOSE v \in content : TRUE
                       ELSE IF bare # {} THEN CHOOSE v \in bare : TRUE
                       ELSE <<>>
        IN  /\ Trim(claimed) # <<>> => genResult[1] = Resolved(Trim(claimed))
            /\ Trim(claimed) = <<>> => genResult[1].kind = "reject"

\* C13: the result of a successful chat completions call is the message
\* content of the first choice, and the bare text of the first choice only
\* when that content is missing or null: a content that is the empty text is
\* taken as it is, and the call fails for want of text.  No later choice is
\* used.  The text is returned trimmed; a text that is no string fails the
\* call with a TypeError.
C13_Chat ==
    ChatAnswered =>
        LET json == httpResult.json
            content == Present(json, "choices[0].message.content")
            bare == Present(json, "choices[0].text")
            taken == IF content # {} THEN CHOOSE v \in content : TRUE
                     ELSE IF bare # {} THEN CHOOSE v \in bare : TRUE
                     ELSE <<>>
        IN  IF ~IsString(taken)
            THEN genResult[1] = Rejected("TypeError", <<>>, 0)
            ELSE IF Trim(taken) = <<>> THEN genResult[1] = NoTextError
            ELSE genResult[1] = Resolved(Trim(taken))

C13_Witness ==
    /\ ChatAnswered
    /\ httpResult.json =
           {<<"choices[0].text", <<"x">> >>,
            <<"choices[1].message.content", <<"l", "a", "t", "e", "r">> >>}
    /\ genResult[1] = Resolved(<<"x">>)

\* C14: improveWriting never returns a text that is empty or all white
\* space: a process that exits with code 0 and such an output, and a
\* response with a status below 400 and no text in its body, make the call
\* fail for want of text.
C14_NeverBlank ==
    /\ genResult[1].kind = "resolve" =>
           /\ genResult[1].text # <<>>
           /\ \E k \in 1..Len(genResult[1].text) :
                  genResult[1].text[k] \notin WhiteSpace
    /\ (GenDone /\ closeCode[1] = 0 /\ eventLog[1] = <<"close">>
        /\ \A k \in 1..Len(Flatten(outChunks[1])) :
               Flatten(outChunks[1])[k] \in WhiteSpace) =>
           genResult[1] = Rejected("Codex CLI returned no text.", <<>>, 0)
    /\ (Answered /\ httpResult.status < 400 /\ httpResult.json = EmptyObject) =>
           genResult[1] = NoTextError

C14_Witness ==
    /\ GenDone
    /\ closeCode[1] = 0
    /\ Flatten(outChunks[1]) = <<" ">>
    /\ genResult[1] = Rejected("Codex CLI returned no text.", <<>>, 0)

\* the paths of the leaves of a JSON object
PathsOf(json) == {leaf[1] : leaf \in json}

\* C15: with the codex_cli backend a call spawns the CLI and sends no
\* request; with the other backend it spawns no process and sends one POST,
\* to /chat/completions with a body of messages when the endpoint style is
\* chat_completions, and to /responses with a body of input items otherwise.
C15_Dispatch ==
    /\ aiBackend = "codex_cli" =>
           /\ postLog[1] = <<>>
           /\ httpPc = "idle"
           /\ Spawned(1) => Len(spawnLog[1]) = 1
    /\ aiBackend # "codex_cli" =>
           /\ spawnLog[1] = <<>>
           /\ ~Spawned(1)
           /\ genPc[1] # "idle" => Len(postLog[1]) = 1
           /\ \A k \in 1..Len(postLog[1]) :
                  LET post == postLog[1][k]
                  IN  IF apiStyle = "chat_completions"
                      THEN /\ post.path = "/chat/completions"
                           /\ httpPath = "/chat/completions"
                           /\ PathsOf(post.body) =
                                  {"model", "temperature", "messages[0].role",
                                   "messages[0].content", "messages[1].role",
                                   "messages[1].content"}
                           /\ <<"messages[1].content", genInput[1].text>>
                                  \in post.body
                      ELSE /\ post.path = "/responses"
                           /\ httpPath = "/responses"
                           /\ PathsOf(post.body) =
                                  {"model", "temperature", "input[0].role",
                                   "input[0].content[0].type",
                                   "input[0].content[0].text", "input[1].role",
                                   "input[1].content[0].type",
                                   "input[1].content[0].text"}
                           /\ <<"input[1].content[0].text", genInput[1].text>>
                                  \in post.body

C15_Witness ==
    /\ aiBackend = "openai_api"
    /\ apiStyle = "chat_completions"
    /\ Len(postLog[1]) = 1
    /\ postLog[1][1].path = "/chat/completions"
    /\ GenDone

\* the call met a failure: its process timed out, could not be started or
\* exited with another code than 0, its request timed out, broke or was
\* answered with a status of 400 or more, or the backend gave no text
Failed ==
    \/ outcome[1].kind = "reject"
    \/ httpResult.kind = "throw"
    \/ httpResult.kind = "return" /\ httpResult.status >= 400
    \/ outcome[1].kind = "resolve" /\ outcome[1].text = <<>>
    \/ httpResult.kind = "return" /\ httpResult.json = EmptyObject

\* C16: a call spawns at most one process or sends at most one request,
\* never both and never a second one; a call that met a failure ends with
\* exactly one error, and a call that returned a text with none.
C16_NoRetry ==
    /\ Len(spawnLog[1]) + Len(postLog[1]) <= 1
    /\ (GenDone /\ Failed) =>
           /\ genResult[1].kind = "reject"
           /\ Len(surfaced[1]) = 1
    /\ (GenDone /\ genResult[1].kind = "resolve") => surfaced[1] = <<>>

C16_Witness ==
    /\ GenDone
    /\ httpLog = <<"timeout">>
    /\ Len(postLog[1]) = 1
    /\ Len(surfaced[1]) = 1

(***************************************************************************)
(* Properties of the thread modes.                                         *)
(***************************************************************************)
Started(c) == genPc[c] # "idle"

\* the thread mode and id a call is to use: those of the override its note
\* had when the call began, and the global ones where it had none
ResolvedDirective(c) ==
    IF callTarget[c].override # NoOverride
    THEN callTarget[c].override
    ELSE [mode |-> codexThreadMode, threadId |-> codexThreadId]

ExecWord == <<"e", "x", "e", "c">>

SkipCheckFlag ==
    <<"-", "-", "s", "k", "i", "p", "-", "g", "i", "t", "-", "r", "e", "p",
      "o", "-", "c", "h", "e", "c", "k">>

ResumeWord == <<"r", "e", "s", "u", "m", "e">>

LastFlag == <<"-", "-", "l", "a", "s", "t">>

\* C17 as claimed: in thread mode new the argument vector is exec, the flag
\* --skip-git-repo-check, -m, the model and one prompt, which is the system
\* instruction, the return-only directive and the source text, each a
\* paragraph of its own.
C17_Claimed ==
    \A c \in Calls : (Started(c) /\ ResolvedDirective(c).mode = "new") =>
        spawnLog[c] =
            << <<ExecWord, SkipCheckFlag, <<"-", "m">>, model,
                 genInput[c].systemPrompt \o <<LF, LF>>
                 \o ReturnOnlyDirective \o <<LF, LF>>
                 \o genInput[c].text>> >>

\* C17: in thread mode new the argument vector is exec, the flag
\* --skip-git-repo-check, -m, the model and one prompt, which is three
\* paragraphs: the system instruction, the return-only directive, and the
\* line "Text to improve:" with the source text on the lines after it.
C17_ExecArgv ==
    \A c \in Calls : (Started(c) /\ ResolvedDirective(c).mode = "new") =>
        spawnLog[c] =
            << <<ExecWord, SkipCheckFlag, <<"-", "m">>, model,
                 genInput[c].systemPrompt \o <<LF, LF>>
                 \o ReturnOnlyDirective \o <<LF, LF>>
                 \o TextToImprove \o <<LF>> \o genInput[c].text>> >>

C17_Witness ==
    /\ Started(1)
    /\ callTarget[1].override.mode = "new"
    /\ codexThreadMode = "specific"
    /\ Len(spawnLog[1]) = 1
    /\ Len(spawnLog[1][1]) = 5

\* an argument vector holds a word
Holds(argv, word) == \E k \in 1..Len(argv) : argv[k] = word

\* C18: the argument vector of a call follows its thread mode: with mode
\* specific it is the resume form and carries the thread id, with mode last
\* it is the resume form for the most recent thread, and with mode new it is
\* the plain exec form without a resume argument.
C18_Claimed ==
    \A c \in Calls : \A k \in 1..Len(spawnLog[c]) :
        LET argv == spawnLog[c][k]
            directive == ResolvedDirective(c)
        IN  /\ directive.mode = "specific" =>
                Holds(argv, ResumeWord) /\ Holds(argv, directive.threadId)
            /\ directive.mode = "last" =>
                Holds(argv, ResumeWord) /\ Holds(argv, LastFlag)
            /\ directive.mode = "new" => ~Holds(argv, ResumeWord)

\* the thread mode and id an argument vector asks the CLI for
ThreadUsed(argv) ==
    IF Len(argv) < 2 \/ argv[2] # ResumeWord
    THEN [mode |-> "new", threadId |-> <<>>]
    ELSE IF Holds(argv, LastFlag) THEN [mode |-> "last", threadId |-> <<>>]
    ELSE [mode |-> "specific", threadId |-> argv[3]]

\* C19: every call uses the thread mode and id of the override its note has
\* when the call is made, and the global ones when the note has none; the
\* thread id counts under mode specific only.
C19_Claimed ==
    \A c \in Calls : \A k \in 1..Len(spawnLog[c]) :
        LET used == ThreadUsed(spawnLog[c][k])
            directive == ResolvedDirective(c)
        IN  /\ used.mode = directive.mode
            /\ directive.mode = "specific" => used.threadId = directive.threadId

Stored(filePath) == codexThreadOverrides[filePath] # NoOverride

\* the last operation was a Save of mode specific with a blank id
BlankSpecificSave ==
    /\ lastOp.op = "save"
    /\ lastOp.mode = "specific"
    /\ \A k \in 1..Len(lastOp.idValue) : lastOp.idValue[k] \in WhiteSpace

\* C20 as claimed: every stored override carries a thread id if and only if
\* its mode is specific, and a Save of mode specific with a blank id leaves
\* the overrides as they were.
C20_Claimed ==
    /\ \A f \in Files : Stored(f) =>
           (codexThreadOverrides[f].threadId # <<>>
                <=> codexThreadOverrides[f].mode = "specific")
    /\ BlankSpecificSave => ~lastOp.changed

\* C20: every stored override of mode specific carries a thread id that is
\* not blank, and a Save of mode specific with a blank id leaves the
\* overrides as they were; every other Save stores the mode with the
\* trimmed content of the id field, so that an override of mode new or last
\* carries a thread id whenever the field held one.
C20_Stored ==
    /\ \A f \in Files : Stored(f) =>
           /\ codexThreadOverrides[f].mode \in ThreadModes
           /\ codexThreadOverrides[f].mode = "specific" =>
                  /\ codexThreadOverrides[f].threadId # <<>>
                  /\ \E k \in 1..Len(codexThreadOverrides[f].threadId) :
                         codexThreadOverrides[f].threadId[k] \notin WhiteSpace
    /\ BlankSpecificSave => ~lastOp.changed
    /\ (lastOp.op = "save" /\ ~BlankSpecificSave) =>
           /\ codexThreadOverrides[lastOp.filePath].mode = lastOp.mode
           /\ IsTrimOf(codexThreadOverrides[lastOp.filePath].threadId,
                       lastOp.idValue)

C20_Witness ==
    /\ BlankSpecificSave
    /\ lastOp.filePath = "a.md"
    /\ Stored("a.md")
    /\ codexThreadOverrides["a.md"].mode = "last"
    /\ Stored("b.md")

(***************************************************************************)
(* Properties of the improve workflow.                                     *)
(***************************************************************************)
\* the apply button of the modal of run r is pressed in this step
Applies(r) == editPc[r] = "reviewing" /\ applied'[r] # applied[r]

\* C21: the workflow changes the text of the note only in the step in which
\* the apply button of a review modal is pressed: starting a run, the
\* generation, a failure, an empty result and Cancel leave it as it is (any
\* other change is the user typing).  A modal applies once at most, and
\* what it writes into the note is the text its textarea holds at the click.
C21_ReviewBeforeApply ==
    [][/\ noteValue' # noteValue =>
              \/ userEdits' # userEdits
              \/ \E r \in Calls : Applies(r)
       /\ \A r \in Calls :
              applied'[r] # applied[r] =>
                  /\ Applies(r)
                  /\ applied[r] = NoWrite
                  /\ applied'[r].text = textarea[r]
                  /\ noteValue' =
                         IF run[r].useSelection
                         THEN SubSeq(noteValue, 1, selection.from) \o textarea[r]
                              \o SubSeq(noteValue, selection.to + 1, Len(noteValue))
                         ELSE textarea[r]]_vars

\* a whole note was replaced by the text the user typed into the modal in
\* place of the proposed one
C21_Witness ==
    /\ editPc[1] = "done"
    /\ applied[1].op = "setValue"
    /\ genResult[1].kind = "resolve"
    /\ textarea[1] = <<"Q">>
    /\ textarea[1] # run[1].preservedFrontMatter \o genResult[1].text
    /\ noteValue = <<"Q">>

IsPrefix(p, text) == Len(p) <= Len(text) /\ SubSeq(text, 1, Len(p)) = p

IsSuffix(p, text) ==
    Len(p) <= Len(text) /\ SubSeq(text, Len(text) - Len(p) + 1, Len(text)) = p

Drop(text, k) == SubSeq(text, k + 1, Len(text))

LineBreaks == {<<LF>>, <<CR, LF>>}

\* a text that is a front-matter block: a line "---", at least one more
\* line, and a closing line "---" with or without its line break
IsBlock(block) ==
    \E first \in LineBreaks, last \in LineBreaks, end \in LineBreaks \cup {<<>>} :
        /\ IsPrefix(Dashes \o first, block)
        /\ IsSuffix(last \o Dashes \o end, block)
        /\ Len(block) >= Len(first) + Len(last) + Len(end) + 6

\* the leading front-matter block of a text, empty where it has none: its
\* shortest prefix that is a block and ends with a line or with the text
LeadingBlock(text) ==
    LET ends == {k \in 0..Len(text) :
                    /\ IsBlock(SubSeq(text, 1, k))
                    /\ k = Len(text) \/ text[k] = LF}
    IN  IF ends = {} THEN <<>>
        ELSE SubSeq(text, 1, CHOOSE k \in ends : \A l \in ends : k <= l)

\* run r rewrites the whole note
FullNoteRun(r) == run[r].trigger # "none" /\ editPc[r] # "idle" /\ ~run[r].useSelection

C23_FailFast ==
    \A c \in Calls :
        host[c] \in {"no require", "no spawn"} =>
            /\ procPc[c] = "done"
            /\ outcome[c] =
                   IF host[c] = "no require"
                   THEN Rejected("Codex CLI is available only in Obsidian desktop.",
                                 <<>>, 0)
                   ELSE Rejected("Unable to access child_process.spawn.", <<>>, 0)
            /\ child[c] = "none"
            /\ timer[c] = "none"
            /\ signals[c] = <<>>
            /\ eventLog[c] = <<>>
            /\ stdout[c] = <<>> /\ stderr[c] = <<>>

\* a call made where require exists and child_process.spawn is missing
C23_Witness ==
    /\ host[1] = "no spawn"
    /\ outcome[1].kind = "reject"
    /\ outcome[1].tmpl = "Unable to access child_process.spawn."

\* C24: a call that has settled has no armed timer, whichever way it
\* settled: the close handler clears the timer of the process, the timer
\* that settled a call has fired, and postJson clears its timer when it
\* returns or throws.  So a process whose close settled its call is never
\* sent a signal, and the request of a postJson that has returned or thrown
\* on a network error is never aborted.
C24_Released ==
    /\ \A c \in Calls :
           /\ settled[c] => timer[c] # "armed"
           /\ CloseFirst(c) => signals[c] = <<>>
    /\ httpPc = "done" => httpTimer # "armed"
    /\ \A k \in 1..Len(httpLog) :
           httpLog[k] \in {"body", "network error"} =>
               /\ k = Len(httpLog)
               /\ ~aborted

\* the close of the process settled the call and cleared the timer
C24_Witness ==
    /\ genPc[1] = "done"
    /\ CloseFirst(1)
    /\ settled[1]
    /\ timer[1] = "cleared"
    /\ signals[1] = <<>>

\* what belongs to one call of the process invoker
OfCall(c) ==
    <<procPc[c], child[c], stdout[c], stderr[c], settled[c], timer[c],
      signals[c], outcome[c], settleCalls[c], outChunks[c], errChunks[c],
      closeCode[c], eventLog[c], host[c]>>

\* C25: with two calls of the process invoker in flight together, an event
\* of one call changes nothing of the other; the buffers of a call hold the
\* output of its own process, its outcome is the one its own first event
\* (timeout or close) gives, with its own output and exit code, and its
\* process is sent SIGTERM exactly when its own timer settled it.
C25_Independent ==
    /\ [](\A c \in Calls :
              /\ stdout[c] = Flatten(outChunks[c])
              /\ stderr[c] = Flatten(errChunks[c])
              /\ settled[c] = (eventLog[c] # <<>>)
              /\ TimeoutFirst(c) => outcome[c] = TimedOutError(requestTimeoutMs)
              /\ CloseFirst(c) =>
                     outcome[c] = CloseResult(closeCode[c], stdout[c], stderr[c])
              /\ eventLog[c] = <<>> => outcome[c] = NoOutcome
              /\ signals[c] = IF TimeoutFirst(c) THEN <<"SIGTERM">> ELSE <<>>)
    /\ [][\E d \in Calls : \A c \in Calls \ {d} : OfCall(c)' = OfCall(c)]_vars

\* one call timed out and its process, sent SIGTERM, has not closed yet; the
\* other call, with output of its own, was settled by the close of its
\* process
C25_Witness ==
    /\ TimeoutFirst(1)
    /\ child[1] = "running"
    /\ stdout[1] = <<"o", "k">>
    /\ CloseFirst(2)
    /\ closeCode[2] = 0
    /\ outcome[2] = Resolved(<<"o", "k", "o", "k">>)
    /\ signals[2] = <<>>

\* C26 as claimed: whenever the timer of postJson fires before postJson has
\* returned, be it while the response is awaited or while the body of a
\* response is read, the call throws the timeout error.
C26_Claimed ==
    (\E k \in 1..Len(httpLog) : httpLog[k] = "timeout") =>
        httpResult = Thrown("Request timed out after Nms.", requestTimeoutMs)

\* C27 as claimed: whatever the user did to the selection or the note
\* while the request was in flight or the modal was open, the apply button
\* replaces the region captured when the request started (the selection of
\* then, or the whole note), which still holds the text that was sent.
C27_Claimed ==
    \A r \in Calls :
        applied[r].op # "none" =>
            /\ applied[r].from = run[r].from
            /\ applied[r].to = run[r].to
            /\ applied[r].replaced = run[r].sourceText

(***************************************************************************)
(* Properties of the Ask & Edit panel.                                     *)
(***************************************************************************)
\* runAskEdit of the panel awaits improveCurrentWriting for run r
PanelInFlight(r) == run[r].trigger = "panel" /\ editPc[r] = "generating"

\* C28: the run button is disabled exactly while a run started from the
\* panel is in flight, at most one such run is in flight at a time, and
\* after a click that ended on the blank prompt, on the missing target file
\* or with improveCurrentWriting returned the button is enabled.
C28_RunButton ==
    /\ runButtonDisabled <=> (\E r \in Calls : PanelInFlight(r))
    /\ Cardinality({r \in Calls : PanelInFlight(r)}) <= 1
    /\ panelPath \in {"blank prompt", "no target", "finished"} =>
           ~runButtonDisabled

\* a first run of the panel ended on an error of the backend, the button was
\* enabled again, and a second run started from it is in flight
C28_Witness ==
    \E r \in Calls, q \in Calls :
        /\ run[r].trigger = "panel"
        /\ editPc[r] = "done"
        /\ genResult[r].kind = "reject"
        /\ PanelInFlight(q)
        /\ runButtonDisabled

(***************************************************************************)
(* Properties of the backtrace loop of buildUnifiedDiff.                   *)
(***************************************************************************)
\* the iterations of the while loop from (i, j) on, each with the (i, j) it
\* started at; the walk is cut off once it is longer than a walk that
\* steps down in every iteration can be
RECURSIVE Walk(_, _, _, _, _, _)
Walk(originalLines, updatedLines, directions, i, j, steps) ==
    IF ~(i > 0 \/ j > 0) \/ Len(steps) > Len(originalLines) + Len(updatedLines)
    THEN steps
    ELSE LET step == BacktraceStep(originalLines, updatedLines, directions, i, j)
         IN  Walk(originalLines, updatedLines, directions, step.i, step.j,
                  Append(steps, [fromI |-> i, fromJ |-> j, idx |-> step.idx,
                                 op |-> step.op, i |-> step.i, j |-> step.j]))

WalkOf(original, updated) ==
    LET originalLines == splitLines(original)
        updatedLines  == splitLines(updated)
    IN  Walk(originalLines, updatedLines,
             Directions(originalLines, updatedLines),
             Len(originalLines), Len(updatedLines), <<>>)

Max(a, b) == IF a >= b THEN a ELSE b

\* C29: within the size guard the walk of the backtrace loop ends at (0, 0);
\* each iteration leaves i or j smaller and neither larger, and computes a
\* cell index inside the (n + 1) x (m + 1) grid; the iterations, one emitted
\* line each, number n + m minus the Equal ones, between max(n, m) and
\* n + m; the returned diff has that many lines.
C29_Backtrace ==
    (DiffDone /\ WithinGuard) =>
        LET n     == Len(splitLines(originalText))
            m     == Len(splitLines(updatedText))
            walk  == WalkOf(originalText, updatedText)
            equal == Cardinality({k \in 1..Len(walk) : walk[k].op = "Equal"})
        IN  /\ walk # <<>>
            /\ walk[Len(walk)].i = 0 /\ walk[Len(walk)].j = 0
            /\ \A k \in 1..Len(walk) :
                  /\ walk[k].i >= 0 /\ walk[k].j >= 0
                  /\ walk[k].i <= walk[k].fromI /\ walk[k].j <= walk[k].fromJ
                  /\ walk[k].i < walk[k].fromI \/ walk[k].j < walk[k].fromJ
                  /\ walk[k].idx \in 0..((n + 1) * (m + 1) - 1)
                  /\ walk[k].op # "none"
            /\ Len(walk) = n + m - equal
            /\ Len(walk) >= Max(n, m)
            /\ Len(walk) <= n + m
            /\ Len(SplitOnLineFeed(diffResult)) = Len(walk)

\* a walk over seven and six lines that takes all three branches
C29_Witness ==
    /\ DiffDone
    /\ WithinGuard
    /\ Len(splitLines(originalText)) = 7
    /\ Len(splitLines(updatedText)) = 6
    /\ \A op \in {"Equal", "Insert", "Delete"} :
          \E k \in 1..Len(WalkOf(originalText, updatedText)) :
              WalkOf(originalText, updatedText)[k].op = op

====
